---- MODULE Spec2Model ----
(***************************************************************************)
(* A model of the indexed registries of PyBiographical: LocationRegistry   *)
(* (locations/registry.py), NameRegistry (names/registry.py) and the       *)
(* NameResolver built on it (names/resolver.py).                           *)
(*                                                                         *)
(* Text is a sequence of one-character strings, so that str.lower() and    *)
(* difflib.SequenceMatcher can be computed as the library computes them.   *)
(* Floating point numbers are exact rationals <<numerator, denominator>>   *)
(* with a positive denominator.                                            *)
(* A Python dict is a sequence of [key, val] pairs in insertion order.     *)
(* The JSON source handed to load() is well-formed: every record dict      *)
(* carries its required keys; optional keys may be missing.                *)
(***************************************************************************)
EXTENDS Integers, Sequences, FiniteSets, TLC

VARIABLES
    registry,        \* the class that was instantiated
    locations,       \* LocationRegistry.locations
    entries,         \* NameRegistry.entries
    name_index,      \* _name_index of either class
    country_index,   \* LocationRegistry._country_index
    code_index,      \* LocationRegistry._code_index
    phonetic_index,  \* NameRegistry._phonetic_index
    cognate_index,   \* NameRegistry._cognate_index
    last_op,         \* the call that ran last: its name, arguments, outcome
    result,          \* the value that call returned
    committed,       \* history: id -> record of the last successful create/update/load
    deleted,         \* history: ids deleted since the last load
    persons_dir,     \* PersonCRUD.persons_dir: file name -> the data load_yaml gives
    backup_dir,      \* PersonCRUD.backup_dir: backup name -> data
    archive_dir,     \* PersonCRUD.archive_dir: file name -> data
    clock,           \* the second datetime.now() shows
    FUZZY_MATCHING_AVAILABLE  \* matching: rapidfuzz could be imported

vars == <<registry, locations, entries, name_index, country_index, code_index,
          phonetic_index, cognate_index, last_op, result, committed, deleted,
          persons_dir, backup_dir, archive_dir, clock, FUZZY_MATCHING_AVAILABLE>>

\* the directories of PersonCRUD, the clock and the build
PersonVars == <<persons_dir, backup_dir, archive_dir, clock, FUZZY_MATCHING_AVAILABLE>>

\* an instance of a registry class: no person directories in use
NoPersons ==
    /\ persons_dir = <<>>
    /\ backup_dir = <<>>
    /\ archive_dir = <<>>
    /\ clock = 0
    /\ FUZZY_MATCHING_AVAILABLE = FALSE

-----------------------------------------------------------------------------
(* Bounds *)

\* identifiers are 1..MaxId
MaxId == 2
\* a JSON source holds at most MaxFile records
MaxFile == 2

Ids == 1..MaxId

-----------------------------------------------------------------------------
(* Python values *)

\* None where a record is expected
None == [none |-> TRUE]
\* None where text or a number is expected
NoneStr == <<"None">>

\* Python truthiness of an Optional[str]
Truthy(s) == s # NoneStr /\ s # <<>>
\* None for a tag (name_type, method), and the truthiness of an optional tag
NoneTag == "None"
TruthyTag(t) == t # NoneTag /\ t # ""

LowerChar(c) ==
    CASE c = "A" -> "a"
      [] c = "B" -> "b"
      [] c = "C" -> "c"
      [] c = "U" -> "u"
      [] c = "S" -> "s"
      [] c = "N" -> "n"
      [] c = "D" -> "d"
      [] OTHER -> c

\* str.lower()
Lower(s) == [i \in 1..Len(s) |-> LowerChar(s[i])]

S_ab  == <<"a", "b">>
S_Ab  == <<"A", "b">>
S_AB  == <<"A", "B">>
S_abc == <<"a", "b", "c">>
S_bc  == <<"b", "c">>
S_US  == <<"U", "S">>
S_us  == <<"u", "s">>
S_ND  == <<"N", "D">>

RECURSIVE SeqToSet(_)
SeqToSet(s) == IF s = <<>> THEN {} ELSE {Head(s)} \cup SeqToSet(Tail(s))

\* [x.lower() for x in s]
LowerEach(s) == [i \in 1..Len(s) |-> Lower(s[i])]
\* [x.form for x in s]
FormEach(s) == [i \in 1..Len(s) |-> s[i].form]

-----------------------------------------------------------------------------
(* Rationals for float arithmetic *)

Rat(n, d) == <<n, d>>
RAdd(x, y) == <<x[1] * y[2] + y[1] * x[2], x[2] * y[2]>>
RSub(x, y) == <<x[1] * y[2] - y[1] * x[2], x[2] * y[2]>>
RMul(x, y) == <<x[1] * y[1], x[2] * y[2]>>
\* x / y for y > 0
RDiv(x, y) == <<x[1] * y[2], x[2] * y[1]>>
RLe(x, y) == x[1] * y[2] <= y[1] * x[2]
RLt(x, y) == x[1] * y[2] < y[1] * x[2]
REq(x, y) == x[1] * y[2] = y[1] * x[2]
RMin(x, y) == IF RLe(x, y) THEN x ELSE y

-----------------------------------------------------------------------------
(* difflib.SequenceMatcher(None, a, b).ratio() *)

Sub(s, lo, hi) == [i \in 1..(hi - lo + 1) |-> s[lo + i - 1]]

\* all matching blocks <<i, j, k>>: a[i..i+k-1] = b[j..j+k-1], k >= 1
Blocks(a, b) ==
    {t \in (1..Len(a)) \X (1..Len(b)) \X (1..Len(a)) :
        /\ t[1] + t[3] - 1 <= Len(a)
        /\ t[2] + t[3] - 1 <= Len(b)
        /\ Sub(a, t[1], t[1] + t[3] - 1) = Sub(b, t[2], t[2] + t[3] - 1)}

\* find_longest_match: the longest block, the earliest in a, then the earliest in b
LongestMatch(a, b) ==
    LET bs == Blocks(a, b)
    IN CHOOSE t \in bs : \A u \in bs :
          \/ t[3] > u[3]
          \/ t[3] = u[3] /\ t[1] < u[1]
          \/ t[3] = u[3] /\ t[1] = u[1] /\ t[2] <= u[2]

\* get_matching_blocks: the total size of the blocks found left and right of the longest
RECURSIVE Matches(_, _)
Matches(a, b) ==
    IF Blocks(a, b) = {} THEN 0
    ELSE LET t == LongestMatch(a, b)
         IN t[3] + Matches(Sub(a, 1, t[1] - 1), Sub(b, 1, t[2] - 1))
                 + Matches(Sub(a, t[1] + t[3], Len(a)), Sub(b, t[2] + t[3], Len(b)))

\* ratio(): 2.0 * matches / (len(a) + len(b)), 1.0 for two empty strings
Ratio(a, b) ==
    IF Len(a) + Len(b) = 0 THEN Rat(1, 1)
    ELSE Rat(2 * Matches(a, b), Len(a) + Len(b))

-----------------------------------------------------------------------------
(* dict *)

DictKeys(d) == {d[i].key : i \in 1..Len(d)}
DictHas(d, k) == \E i \in 1..Len(d) : d[i].key = k
\* d[k] for a key that is present
DictGet(d, k) == d[CHOOSE i \in 1..Len(d) : d[i].key = k].val
\* d[k] = v: in place for a present key, at the end for a new one
DictSet(d, k, v) ==
    IF DictHas(d, k)
    THEN [i \in 1..Len(d) |-> IF d[i].key = k THEN [key |-> k, val |-> v] ELSE d[i]]
    ELSE Append(d, [key |-> k, val |-> v])
\* del d[k]
DictDel(d, k) == SelectSeq(d, LAMBDA e : e.key # k)
\* d.setdefault(k, []).append(x)
DictAppend(d, k, x) ==
    IF DictHas(d, k) THEN DictSet(d, k, Append(DictGet(d, k), x))
    ELSE DictSet(d, k, <<x>>)
\* d.get(k, default)
DictGetOr(d, k, default) == IF DictHas(d, k) THEN DictGet(d, k) ELSE default

RECURSIVE AppendAll(_, _, _)
\* for k in ks: d.setdefault(k, []).append(x)
AppendAll(d, ks, x) ==
    IF ks = <<>> THEN d ELSE AppendAll(DictAppend(d, Head(ks), x), Tail(ks), x)

RECURSIVE SetAll(_, _, _)
\* for k in ks: d[k] = x
SetAll(d, ks, x) ==
    IF ks = <<>> THEN d ELSE SetAll(DictSet(d, Head(ks), x), Tail(ks), x)

\* list.sort(key=..., reverse=True), keys[i] the key of s[i]: descending, equal keys
\* keep their order
StableSortDesc(s, keys) ==
    LET pos(i) == 1 + Cardinality({j \in 1..Len(s) :
                        \/ RLt(keys[i], keys[j])
                        \/ REq(keys[i], keys[j]) /\ j < i})
    IN [p \in 1..Len(s) |-> s[CHOOSE i \in 1..Len(s) : pos(i) = p]]

-----------------------------------------------------------------------------
(* locations/models.py *)

\* Geocode.from_dict: the model keeps the coordinates, in whole degrees
GeocodeFromDict(d) == [latitude |-> d.latitude, longitude |-> d.longitude]

\* HistoricalName.from_dict: the model keeps the name
HistoricalNameFromDict(d) == d.name

\* LocationHierarchy.from_dict: the model keeps the country
LocationHierarchyFromDict(d) ==
    [country |-> IF "country" \in DOMAIN d THEN d.country ELSE NoneStr]

\* LocationCodes.from_dict
LocationCodesFromDict(d) ==
    [iso_3166_1 |-> IF "iso_3166_1" \in DOMAIN d THEN d.iso_3166_1 ELSE NoneStr,
     iso_3166_2 |-> IF "iso_3166_2" \in DOMAIN d THEN d.iso_3166_2 ELSE NoneStr,
     fips       |-> IF "fips" \in DOMAIN d THEN d.fips ELSE NoneStr]

\* Location.from_dict; an empty dict <<>> is falsy
LocationFromDict(d) ==
    [location_id |-> d.location_id,
     modern_name |-> d.modern_name,
     historical_names |->
        IF "historical_names" \in DOMAIN d
        THEN [i \in 1..Len(d.historical_names) |-> HistoricalNameFromDict(d.historical_names[i])] ELSE <<>>,
     alternate_spellings |->
        IF "alternate_spellings" \in DOMAIN d THEN d.alternate_spellings ELSE <<>>,
     geocode |->
        IF "geocode" \in DOMAIN d /\ DOMAIN d.geocode # {}
        THEN GeocodeFromDict(d.geocode) ELSE None,
     hierarchy |->
        IF "hierarchy" \in DOMAIN d /\ DOMAIN d.hierarchy # {}
        THEN LocationHierarchyFromDict(d.hierarchy) ELSE None,
     codes |->
        IF "codes" \in DOMAIN d /\ DOMAIN d.codes # {}
        THEN LocationCodesFromDict(d.codes) ELSE None]

\* the record dicts a locations.json may hold for one location_id
LocationDicts(id) ==
    { [location_id |-> id, modern_name |-> S_ab,
       historical_names |-> << [name |-> S_AB] >>,
       hierarchy |-> <<>>],
      [location_id |-> id, modern_name |-> S_Ab,
       historical_names |-> << [name |-> S_bc] >>,
       geocode |-> [latitude |-> 0, longitude |-> 0],
       hierarchy |-> [country |-> S_US],
       codes |-> [iso_3166_1 |-> S_US]],
      [location_id |-> id, modern_name |-> S_abc,
       alternate_spellings |-> << S_ab >>,
       geocode |-> [latitude |-> 0, longitude |-> 1],
       hierarchy |-> [country |-> S_us],
       codes |-> [iso_3166_1 |-> S_US, iso_3166_2 |-> S_ND]] }

\* the Location objects a caller passes to create and update
LocationPool == UNION { {LocationFromDict(d) : d \in LocationDicts(id)} : id \in Ids }

\* the JSON sources: lists of at most MaxFile record dicts, one known dict per id,
\* no id twice
LocationFileDicts ==
    { CHOOSE d \in LocationDicts(id) :
         Len(d.modern_name) = 2 + (id % 2) /\ "codes" \in DOMAIN d
      : id \in Ids }
LocationFiles ==
    { [exists |-> TRUE, data |-> f]
      : f \in UNION { {g \in [1..n -> LocationFileDicts] :
                          \A i, j \in 1..n : g[i] = g[j] => i = j}
                      : n \in 0..MaxFile } }

\* the data file is not configured or does not exist
Missing == [exists |-> FALSE]

-----------------------------------------------------------------------------
(* LocationRegistry *)

\* the keys _rebuild_indexes files one location under in _name_index
LocNameKeys(loc) ==
    <<Lower(loc.modern_name)>> \o LowerEach(loc.historical_names)
                               \o LowerEach(loc.alternate_spellings)

\* the keys _rebuild_indexes files one location under in _country_index
LocCountryKeys(loc) ==
    IF loc.hierarchy # None /\ Truthy(loc.hierarchy.country)
    THEN <<Lower(loc.hierarchy.country)>> ELSE <<>>

\* the codes _rebuild_indexes assigns to one location in _code_index
LocCodeKeys(loc) ==
    IF loc.codes = None THEN <<>>
    ELSE SelectSeq(<<loc.codes.iso_3166_1, loc.codes.iso_3166_2, loc.codes.fips>>,
                   Truthy)

RECURSIVE LocNameIndexFrom(_, _)
LocNameIndexFrom(d, acc) ==
    IF d = <<>> THEN acc
    ELSE LocNameIndexFrom(Tail(d), AppendAll(acc, LocNameKeys(Head(d).val), Head(d).key))

RECURSIVE LocCountryIndexFrom(_, _)
LocCountryIndexFrom(d, acc) ==
    IF d = <<>> THEN acc
    ELSE LocCountryIndexFrom(Tail(d),
                             AppendAll(acc, LocCountryKeys(Head(d).val), Head(d).key))

RECURSIVE LocCodeIndexFrom(_, _)
LocCodeIndexFrom(d, acc) ==
    IF d = <<>> THEN acc
    ELSE LocCodeIndexFrom(Tail(d), SetAll(acc, LocCodeKeys(Head(d).val), Head(d).key))

\* LocationRegistry._rebuild_indexes
LocRebuildIndexes(locs) ==
    [name_index    |-> LocNameIndexFrom(locs, <<>>),
     country_index |-> LocCountryIndexFrom(locs, <<>>),
     code_index    |-> LocCodeIndexFrom(locs, <<>>)]

RECURSIVE LocLoadFrom(_, _)
\* load: for loc_data in data['locations']: self.locations[id] = Location.from_dict(..)
LocLoadFrom(file, acc) ==
    IF file = <<>> THEN acc
    ELSE LocLoadFrom(Tail(file),
                     DictSet(acc, Head(file).location_id, LocationFromDict(Head(file))))

\* fault: load without self.locations.clear()
LocationRegistry_load_merges(locs, src) ==
    IF ~src.exists THEN locs ELSE LocLoadFrom(src.data, locs)

\* LocationRegistry.load: the collection afterwards
LocationRegistry_load(locs, src) ==
    IF ~src.exists THEN locs ELSE LocLoadFrom(src.data, <<>>)

\* fault: create without the test for an id already there
LocationRegistry_create_overwrites(locs, location) ==
    [raised |-> "", locations |-> DictSet(locs, location.location_id, location)]

\* fault: create that stores a second record under an id already there
LocationRegistry_create_appends(locs, location) ==
    [raised |-> "",
     locations |-> Append(locs, [key |-> location.location_id, val |-> location])]

\* LocationRegistry.create: ValueError for an id already there
LocationRegistry_create(locs, location) ==
    IF DictHas(locs, location.location_id)
    THEN [raised |-> "ValueError", locations |-> locs]
    ELSE [raised |-> "", locations |-> DictSet(locs, location.location_id, location)]

\* LocationRegistry.read
LocationRegistry_read(locs, location_id) == DictGetOr(locs, location_id, None)

\* fault: update that reports success and keeps the stored record
LocationRegistry_update_keeps(locs, location) ==
    IF ~DictHas(locs, location.location_id)
    THEN [raised |-> "ValueError", locations |-> locs]
    ELSE [raised |-> "", locations |-> locs]

\* fault: update without the test for an id that is not there
LocationRegistry_update_upserts(locs, location) ==
    [raised |-> "", locations |-> DictSet(locs, location.location_id, location)]

\* LocationRegistry.update: ValueError for an id that is not there
LocationRegistry_update(locs, location) ==
    IF ~DictHas(locs, location.location_id)
    THEN [raised |-> "ValueError", locations |-> locs]
    ELSE [raised |-> "", locations |-> DictSet(locs, location.location_id, location)]

\* fault: delete that reports success and keeps the record
LocationRegistry_delete_keeps(locs, location_id) ==
    [returned |-> DictHas(locs, location_id), locations |-> locs]

\* LocationRegistry.delete
LocationRegistry_delete(locs, location_id) ==
    IF DictHas(locs, location_id)
    THEN [returned |-> TRUE, locations |-> DictDel(locs, location_id)]
    ELSE [returned |-> FALSE, locations |-> locs]

\* [self.locations[lid] for lid in ids]: KeyError for an id that is not a key
Deref(coll, ids) ==
    IF \A i \in 1..Len(ids) : DictHas(coll, ids[i])
    THEN [raised |-> "", value |-> [i \in 1..Len(ids) |-> DictGet(coll, ids[i])]]
    ELSE [raised |-> "KeyError", value |-> <<>>]

\* LocationRegistry.search_exact
LocationRegistry_search_exact(locs, index, name) ==
    Deref(locs, DictGetOr(index, Lower(name), <<>>))

\* LocationRegistry.search_by_code
LocationRegistry_search_by_code(locs, index, code) ==
    IF DictHas(index, code) THEN DictGetOr(locs, DictGet(index, code), None) ELSE None

\* LocationRegistry.find_by_country
LocationRegistry_find_by_country(locs, index, country) ==
    Deref(locs, DictGetOr(index, Lower(country), <<>>))

\* fault: the country filter lets a location without hierarchy or country through
LocCountrySkips_lenient(location, country) ==
    /\ Truthy(country)
    /\ location.hierarchy # None
    /\ Truthy(location.hierarchy.country)
    /\ Lower(location.hierarchy.country) # Lower(country)

\* the country filter of search: TRUE when the location is to be skipped
LocCountrySkips(location, country) ==
    /\ Truthy(country)
    /\ \/ location.hierarchy = None
       \/ ~Truthy(location.hierarchy.country)
       \/ Lower(location.hierarchy.country) # Lower(country)

\* search: the match type of an exact-index hit
LocMatchType(location, query, include_historical) ==
    IF /\ include_historical
       /\ \E i \in 1..Len(location.historical_names) :
             Lower(location.historical_names[i]) = Lower(query)
    THEN "historical" ELSE "exact"

LocSeenIds(results) == {results[i].location.location_id : i \in 1..Len(results)}

RECURSIVE LocExactTier(_, _, _, _, _)
\* search: the loop over search_exact(query)
LocExactTier(hits, query, include_historical, country, acc) ==
    IF hits = <<>> THEN acc
    ELSE LET location == Head(hits)
             take == /\ ~LocCountrySkips(location, country)
                     /\ location.location_id \notin LocSeenIds(acc)
         IN LocExactTier(Tail(hits), query, include_historical, country,
                IF take
                THEN Append(acc, [location |-> location, confidence |-> Rat(1, 1),
                                  match_type |->
                                      LocMatchType(location, query, include_historical)])
                ELSE acc)

\* search: confidence = 0.5 + (similarity - 0.7) / 0.3 * 0.3
LocFuzzyConfidence(similarity) ==
    RAdd(Rat(1, 2), RMul(RDiv(RSub(similarity, Rat(7, 10)), Rat(3, 10)), Rat(3, 10)))

RECURSIVE LocFuzzyTier(_, _, _, _)
\* search: the loop over self.locations.values()
LocFuzzyTier(d, query, country, acc) ==
    IF d = <<>> THEN acc
    ELSE LET location == Head(d).val
             similarity == Ratio(Lower(query), Lower(location.modern_name))
             take == /\ location.location_id \notin LocSeenIds(acc)
                     /\ ~LocCountrySkips(location, country)
                     /\ RLe(Rat(7, 10), similarity)
         IN LocFuzzyTier(Tail(d), query, country,
                IF take
                THEN Append(acc, [location |-> location,
                                  confidence |-> LocFuzzyConfidence(similarity),
                                  match_type |-> "fuzzy"])
                ELSE acc)

ConfidenceKey(r) == r.confidence

\* LocationRegistry.search before the final sort: the tiers in the order they ran
LocSearchTiers(locs, index, query, include_historical, country) ==
    LET hits == LocationRegistry_search_exact(locs, index, query)
    IN IF hits.raised # "" THEN [raised |-> hits.raised, value |-> <<>>]
       ELSE [raised |-> "",
             value |-> LocFuzzyTier(locs, query, country,
                          LocExactTier(hits.value, query, include_historical,
                                       country, <<>>))]

\* LocationRegistry.search
LocationRegistry_search(locs, index, query, include_historical, country) ==
    LET t == LocSearchTiers(locs, index, query, include_historical, country)
    IN [raised |-> t.raised, value |-> StableSortDesc(t.value, [i \in 1..Len(t.value) |-> ConfidenceKey(t.value[i])])]

\* the Haversine distance in km of two points of the equator, to the metre: with
\* both latitudes 0 it is 6371 * radians(|lon2 - lon1|), 111.195 km a degree
Haversine(lat1, lon1, lat2, lon2) ==
    LET dlon == IF lon2 >= lon1 THEN lon2 - lon1 ELSE lon1 - lon2
    IN Rat(111195 * dlon, 1000)

\* fault: a location at exactly the radius is left out
LocWithinRadius_strict(distance, radius_km) == RLt(distance, radius_km)

\* search_by_coordinates: distance <= radius_km
LocWithinRadius(distance, radius_km) == RLe(distance, radius_km)

RECURSIVE LocNearLoop(_, _, _, _, _)
\* search_by_coordinates: the loop over self.locations.values()
LocNearLoop(d, latitude, longitude, radius_km, acc) ==
    IF d = <<>> THEN acc
    ELSE LET location == Head(d).val
             distance == Haversine(latitude, longitude, location.geocode.latitude,
                                   location.geocode.longitude)
         IN LocNearLoop(Tail(d), latitude, longitude, radius_km,
                IF location.geocode # None /\ LocWithinRadius(distance, radius_km)
                THEN Append(acc, [location |-> location, distance |-> distance])
                ELSE acc)

\* LocationRegistry.search_by_coordinates: results.sort(key=distance)
LocationRegistry_search_by_coordinates(locs, latitude, longitude, radius_km) ==
    LET found == LocNearLoop(locs, latitude, longitude, radius_km, <<>>)
    IN [raised |-> "",
        value |-> StableSortDesc(found, [i \in 1..Len(found) |->
                                            RSub(Rat(0, 1), found[i].distance)])]

-----------------------------------------------------------------------------
(* names/models.py *)

S_A1 == <<"A", "1">>
\* the text of a date in a names.json, and datetime.fromisoformat of it
IsoText == <<"T", "1">>
DatetimeFromIsoformat(text) == [datetime |-> text[2]]
\* datetime.now(): the model has one instant
Now == [datetime |-> "1"]

\* the GeographicUsage(...) call of NameEntry.from_dict: region is required, the
\* other keys are read with get
GeographicUsageFromDict(gu) ==
    [region |-> gu.region,
     country |-> IF "country" \in DOMAIN gu THEN gu.country ELSE NoneStr,
     time_period |-> IF "time_period" \in DOMAIN gu THEN gu.time_period ELSE NoneStr,
     frequency |-> IF "frequency" \in DOMAIN gu THEN gu.frequency ELSE NoneStr,
     location_id |-> IF "location_id" \in DOMAIN gu THEN gu.location_id ELSE NoneStr]

\* NameEntry.from_dict; the model keeps the fields the registry and resolver read
NameEntryFromDict(d) ==
    [id |-> d.id,
     name |-> d.name,
     name_type |-> d.name_type,
     cross_language_forms |->
        IF "cross_language_forms" \in DOMAIN d
        THEN FormEach(d.cross_language_forms) ELSE <<>>,
     spelling_variants |->
        IF "spelling_variants" \in DOMAIN d
        THEN FormEach(d.spelling_variants) ELSE <<>>,
     phonetic |->
        IF "phonetic" \in DOMAIN d
        THEN [i \in 1..Len(d.phonetic) |-> [value |-> d.phonetic[i].value, method |-> d.phonetic[i].method]]
        ELSE <<>>,
     confidence |-> IF "confidence" \in DOMAIN d THEN d.confidence ELSE NoneStr,
     geographic_usage |->
        IF "geographic_usage" \in DOMAIN d
        THEN [i \in 1..Len(d.geographic_usage) |->
                 GeographicUsageFromDict(d.geographic_usage[i])]
        ELSE <<>>,
     date_modified |->
        IF "date_modified" \in DOMAIN d
        THEN DatetimeFromIsoformat(d.date_modified) ELSE None]

\* the record dicts a names.json may hold for one id
NameDicts(id) ==
    { [id |-> id, name |-> S_bc, name_type |-> "given",
       cross_language_forms |-> << [form |-> S_ab, language |-> "French"] >>,
       phonetic |-> << [value |-> S_A1, method |-> "metaphone"] >>],
      [id |-> id, name |-> S_Ab, name_type |-> "surname",
       spelling_variants |-> << [form |-> S_abc] >>,
       phonetic |-> << [value |-> S_A1, method |-> "soundex"] >>,
       geographic_usage |-> << [region |-> S_ab] >>,
       confidence |-> Rat(9, 10),
       date_modified |-> IsoText],
      [id |-> id, name |-> S_abc, name_type |-> "surname",
       spelling_variants |-> << [form |-> S_AB] >>,
       cross_language_forms |-> << [form |-> S_bc, language |-> "German"] >>,
       confidence |-> Rat(3, 10),
       date_modified |-> IsoText] }

\* the NameEntry objects a caller passes to create and update: no dates set yet
NamePool ==
    UNION { {[NameEntryFromDict(d) EXCEPT !.date_modified = None] : d \in NameDicts(id)}
            : id \in Ids }

\* the JSON sources: lists of at most MaxFile record dicts, one known dict per id,
\* no id twice
NameFileDicts ==
    { CHOOSE d \in NameDicts(id) :
         Len(d.name) = 2 + (id % 2) /\ "spelling_variants" \in DOMAIN d
      : id \in Ids }
NameFiles ==
    { [exists |-> TRUE, data |-> f]
      : f \in UNION { {g \in [1..n -> NameFileDicts] :
                          \A i, j \in 1..n : g[i] = g[j] => i = j}
                      : n \in 0..MaxFile } }

-----------------------------------------------------------------------------
(* NameRegistry *)

\* the keys _rebuild_indexes files one entry under in _name_index
NameKeys(entry) == <<Lower(entry.name)>> \o LowerEach(entry.spelling_variants)

\* the keys _rebuild_indexes files one entry under in _phonetic_index
PhoneticKeys(entry) == [i \in 1..Len(entry.phonetic) |-> entry.phonetic[i].value]

\* the keys _rebuild_indexes files one entry under in _cognate_index
CognateKeys(entry) == LowerEach(entry.cross_language_forms)

RECURSIVE NameIndexFrom(_, _)
NameIndexFrom(d, acc) ==
    IF d = <<>> THEN acc
    ELSE NameIndexFrom(Tail(d), AppendAll(acc, NameKeys(Head(d).val), Head(d).key))

RECURSIVE PhoneticIndexFrom(_, _)
PhoneticIndexFrom(d, acc) ==
    IF d = <<>> THEN acc
    ELSE PhoneticIndexFrom(Tail(d), AppendAll(acc, PhoneticKeys(Head(d).val), Head(d).key))

RECURSIVE CognateIndexFrom(_, _)
CognateIndexFrom(d, acc) ==
    IF d = <<>> THEN acc
    ELSE CognateIndexFrom(Tail(d), AppendAll(acc, CognateKeys(Head(d).val), Head(d).key))

\* NameRegistry._rebuild_indexes
NameRebuildIndexes(ents) ==
    [name_index     |-> NameIndexFrom(ents, <<>>),
     phonetic_index |-> PhoneticIndexFrom(ents, <<>>),
     cognate_index  |-> CognateIndexFrom(ents, <<>>)]

RECURSIVE NameLoadFrom(_, _)
\* load: for entry_data in data['names']: self.entries[entry.id] = NameEntry.from_dict(..)
NameLoadFrom(file, acc) ==
    IF file = <<>> THEN acc
    ELSE NameLoadFrom(Tail(file), DictSet(acc, Head(file).id, NameEntryFromDict(Head(file))))

\* NameRegistry.load: the collection afterwards
NameRegistry_load(ents, src) ==
    IF ~src.exists THEN ents ELSE NameLoadFrom(src.data, <<>>)

\* NameRegistry.create: ValueError for an id already there; stamps the dates
NameRegistry_create(ents, entry) ==
    IF DictHas(ents, entry.id)
    THEN [raised |-> "ValueError", entries |-> ents]
    ELSE [raised |-> "",
          entries |-> DictSet(ents, entry.id, [entry EXCEPT !.date_modified = Now])]

\* NameRegistry.read
NameRegistry_read(ents, entry_id) == DictGetOr(ents, entry_id, None)

\* NameRegistry.update: ValueError for an id that is not there; stamps date_modified
NameRegistry_update(ents, entry) ==
    IF ~DictHas(ents, entry.id)
    THEN [raised |-> "ValueError", entries |-> ents]
    ELSE [raised |-> "",
          entries |-> DictSet(ents, entry.id, [entry EXCEPT !.date_modified = Now])]

\* NameRegistry.delete
NameRegistry_delete(ents, entry_id) ==
    IF DictHas(ents, entry_id)
    THEN [returned |-> TRUE, entries |-> DictDel(ents, entry_id)]
    ELSE [returned |-> FALSE, entries |-> ents]

\* the key merge_geographic_usage compares usage entries by
UsageKey(gu) == <<gu.location_id, gu.region, gu.country, gu.time_period>>

RECURSIVE Accumulate(_, _, _)
\* the accumulate loop: a new entry is appended unless its key is among the keys of
\* the usage the entry had when the call began (existing_index is not extended)
Accumulate(usage, existing, usage_entries) ==
    IF usage_entries = <<>> THEN usage
    ELSE Accumulate(IF \E i \in 1..Len(existing) :
                          UsageKey(existing[i]) = UsageKey(Head(usage_entries))
                    THEN usage
                    ELSE Append(usage, Head(usage_entries)),
                    existing, Tail(usage_entries))

\* fault: any merge_strategy is taken, one that is not "replace" as "accumulate"
MergeStrategyValid_any(merge_strategy) == TRUE

\* merge_strategy in ("accumulate", "replace")
MergeStrategyValid(merge_strategy) == merge_strategy \in {"accumulate", "replace"}

\* NameRegistry.merge_geographic_usage: ValueError for an id that is not there or a
\* strategy that is not known, before anything is changed
NameRegistry_merge_geographic_usage(ents, name_id, usage_entries, merge_strategy) ==
    IF ~DictHas(ents, name_id) THEN [raised |-> "ValueError", entries |-> ents]
    ELSE IF ~MergeStrategyValid(merge_strategy)
    THEN [raised |-> "ValueError", entries |-> ents]
    ELSE LET entry == DictGet(ents, name_id)
             usage == IF merge_strategy = "replace" THEN usage_entries
                      ELSE Accumulate(entry.geographic_usage, entry.geographic_usage,
                                      usage_entries)
         IN [raised |-> "",
             entries |-> DictSet(ents, name_id,
                                 [entry EXCEPT !.geographic_usage = usage,
                                               !.date_modified = Now])]

\* the loop of update_fields: setattr for every key the entry has an attribute for
SetFields(entry, fields) ==
    [f \in DOMAIN entry |-> IF f \in DOMAIN fields THEN fields[f] ELSE entry[f]]

\* NameRegistry.update_fields: ValueError for an id that is not there
NameRegistry_update_fields(ents, name_id, fields) ==
    IF ~DictHas(ents, name_id) THEN [raised |-> "ValueError", entries |-> ents]
    ELSE [raised |-> "",
          entries |-> DictSet(ents, name_id,
                              [SetFields(DictGet(ents, name_id), fields)
                                  EXCEPT !.date_modified = Now])]

\* NameRegistry.list_all
NameRegistry_list_all(ents, name_type) ==
    LET values == [i \in 1..Len(ents) |-> ents[i].val]
    IN IF TruthyTag(name_type)
       THEN SelectSeq(values, LAMBDA e : e.name_type = name_type)
       ELSE values

\* NameRegistry.search_exact
NameRegistry_search_exact(ents, index, name) ==
    Deref(ents, DictGetOr(index, Lower(name), <<>>))

\* NameRegistry.search_phonetic: the indexed entries that carry the code under the method
NameRegistry_search_phonetic(ents, index, phonetic_value, method) ==
    LET hits == Deref(ents, DictGetOr(index, phonetic_value, <<>>))
    IN [raised |-> hits.raised,
        value |-> SelectSeq(hits.value, LAMBDA entry :
                     \E i \in 1..Len(entry.phonetic) :
                        /\ entry.phonetic[i].value = phonetic_value
                        /\ (~TruthyTag(method) \/ entry.phonetic[i].method = method))]

\* NameRegistry.search_cognates
NameRegistry_search_cognates(ents, index, name) ==
    Deref(ents, DictGetOr(index, Lower(name), <<>>))

\* search: name_conf = entry.confidence if entry.confidence is not None else 0.5
NameConf(entry) == IF entry.confidence # NoneStr THEN entry.confidence ELSE Rat(1, 2)

\* search: "if name_type and entry.name_type != name_type: continue"
NameTypeSkips(entry, name_type) == TruthyTag(name_type) /\ entry.name_type # name_type

\* fault: seen_ids never filled
NameSeenIds_forgets(results) == {}

NameSeenIds(results) == {results[i].entry.id : i \in 1..Len(results)}

NameResult(entry, confidence, match_type, name_confidence) ==
    [entry |-> entry, confidence |-> confidence, match_type |-> match_type,
     name_confidence |-> name_confidence]

RECURSIVE NameExactTier(_, _, _)
\* search: the loop "Exact matches" over search_exact(query)
NameExactTier(hits, name_type, acc) ==
    IF hits = <<>> THEN acc
    ELSE LET entry == Head(hits)
             take == ~NameTypeSkips(entry, name_type) /\ entry.id \notin NameSeenIds(acc)
         IN NameExactTier(Tail(hits), name_type,
                IF take
                THEN Append(acc, NameResult(entry, Rat(1, 1), "exact", NameConf(entry)))
                ELSE acc)

RECURSIVE NameVariantTier(_, _, _, _)
\* search: the loop "Variant matches" over search_exact(query)
NameVariantTier(hits, query, name_type, acc) ==
    IF hits = <<>> THEN acc
    ELSE LET entry == Head(hits)
             is_variant == \E i \in 1..Len(entry.spelling_variants) :
                              Lower(entry.spelling_variants[i]) = Lower(query)
             take == /\ entry.id \notin NameSeenIds(acc)
                     /\ ~NameTypeSkips(entry, name_type)
                     /\ is_variant
         IN NameVariantTier(Tail(hits), query, name_type,
                IF take
                THEN Append(acc, NameResult(entry, Rat(9, 10), "variant", NameConf(entry)))
                ELSE acc)

RECURSIVE NameCognateTier(_, _, _)
\* search: the loop "Cognate matches" over search_cognates(query)
NameCognateTier(hits, name_type, acc) ==
    IF hits = <<>> THEN acc
    ELSE LET entry == Head(hits)
             take == entry.id \notin NameSeenIds(acc) /\ ~NameTypeSkips(entry, name_type)
         IN NameCognateTier(Tail(hits), name_type,
                IF take
                THEN Append(acc, NameResult(entry, Rat(8, 10), "cognate", NameConf(entry)))
                ELSE acc)

\* search: the key of the final sort,
\* min(r.confidence, r.name_confidence) if r.name_confidence else r.confidence
CombinedKey(r) ==
    IF r.name_confidence # NoneStr /\ r.name_confidence[1] # 0
    THEN RMin(r.confidence, r.name_confidence) ELSE r.confidence

\* search: results.sort(key=combined confidence, reverse=True)
SortByCombined(results) ==
    StableSortDesc(results, [i \in 1..Len(results) |-> CombinedKey(results[i])])

\* NameRegistry.search before the final sort: the tiers in the order they ran
NameSearchTiers(ents, nindex, cindex, query, include_variants, include_cognates, name_type) ==
    LET hits == NameRegistry_search_exact(ents, nindex, query)
        cogs == IF include_cognates
                THEN NameRegistry_search_cognates(ents, cindex, query)
                ELSE [raised |-> "", value |-> <<>>]
        t1 == NameExactTier(hits.value, name_type, <<>>)
        t2 == IF include_variants
              THEN NameVariantTier(hits.value, query, name_type, t1) ELSE t1
        t3 == IF include_cognates THEN NameCognateTier(cogs.value, name_type, t2) ELSE t2
    IN IF hits.raised # "" THEN [raised |-> hits.raised, value |-> <<>>]
       ELSE IF cogs.raised # "" THEN [raised |-> cogs.raised, value |-> <<>>]
       ELSE [raised |-> "", value |-> t3]

\* NameRegistry.search
NameRegistry_search(ents, nindex, cindex, query, include_variants, include_cognates, name_type) ==
    LET t == NameSearchTiers(ents, nindex, cindex, query, include_variants,
                             include_cognates, name_type)
    IN [raised |-> t.raised, value |-> SortByCombined(t.value)]

-----------------------------------------------------------------------------
(* NameResolver *)

\* fault: the confidence not scaled by the width 1.0 - threshold
FuzzyConfidence_unscaled(similarity, threshold) ==
    RAdd(Rat(1, 2), RMul(RSub(similarity, threshold), Rat(3, 10)))

\* _fuzzy_search: confidence = 0.5 + (similarity - threshold) / (1.0 - threshold) * 0.3
FuzzyConfidence(similarity, threshold) ==
    RAdd(Rat(1, 2),
         RMul(RDiv(RSub(similarity, threshold), RSub(Rat(1, 1), threshold)), Rat(3, 10)))

RECURSIVE FuzzyLoop(_, _, _, _, _)
FuzzyLoop(values, name, threshold, exclude, acc) ==
    IF values = <<>> THEN acc
    ELSE LET entry == Head(values)
             similarity == Ratio(Lower(name), Lower(entry.name))
             take == entry.id \notin exclude /\ RLe(threshold, similarity)
         IN FuzzyLoop(Tail(values), name, threshold, exclude,
                IF take
                THEN Append(acc, NameResult(entry, FuzzyConfidence(similarity, threshold),
                                            "fuzzy", NoneStr))
                ELSE acc)

\* NameResolver._fuzzy_search
NameResolver_fuzzy_search(ents, name, name_type, threshold, exclude_ids) ==
    FuzzyLoop(NameRegistry_list_all(ents, name_type), name, threshold, exclude_ids, <<>>)

\* fault: the sort of resolve without reverse=True
SortByConfidence_ascending(results) ==
    LET pos(i) == 1 + Cardinality({j \in 1..Len(results) :
                        \/ RLt(results[j].confidence, results[i].confidence)
                        \/ REq(results[j].confidence, results[i].confidence) /\ j < i})
    IN [p \in 1..Len(results) |-> results[CHOOSE i \in 1..Len(results) : pos(i) = p]]

\* fault: resolve without its final sort
SortByConfidence_unsorted(results) == results

\* resolve: results.sort(key=lambda r: r.confidence, reverse=True)
SortByConfidence(results) ==
    StableSortDesc(results, [i \in 1..Len(results) |-> ConfidenceKey(results[i])])

\* NameResolver.resolve
NameResolver_resolve(ents, nindex, cindex, name, name_type, fuzzy, cross_language, fuzzy_threshold) ==
    LET found == NameRegistry_search(ents, nindex, cindex, name, TRUE, cross_language,
                                     name_type)
        results == IF fuzzy
                   THEN found.value \o
                        NameResolver_fuzzy_search(ents, name, name_type, fuzzy_threshold,
                                                  NameSeenIds(found.value))
                   ELSE found.value
    IN IF found.raised # "" THEN [raised |-> found.raised, value |-> <<>>]
       ELSE [raised |-> "", value |-> SortByConfidence(results)]

-----------------------------------------------------------------------------
(* The session: one registry, the calls a caller makes on it *)

StoreVars == <<locations, entries, name_index, country_index, code_index,
               phonetic_index, cognate_index>>
HistoryVars == <<committed>>

\* the arguments callers pass to the queries
Queries == {S_AB, S_bc, S_abc}
Countries == {NoneStr, S_us}
Codes == {S_US, S_ND}
NameTypes == {NoneTag, "surname"}
Methods == {"soundex", ""}
Thresholds == {Rat(0, 1), Rat(1, 2), Rat(7, 10), Rat(1, 1)}

Init ==
    /\ registry \in {"LocationRegistry", "NameRegistry"}
    /\ locations = <<>>
    /\ entries = <<>>
    /\ name_index = <<>>
    /\ country_index = <<>>
    /\ code_index = <<>>
    /\ phonetic_index = <<>>
    /\ cognate_index = <<>>
    /\ last_op = [op |-> "init"]
    /\ result = None
    /\ committed = [id \in Ids |-> None]
    /\ deleted = {}
    /\ NoPersons

\* the collection is replaced and _rebuild_indexes runs
LocCommit(locs) ==
    LET ix == LocRebuildIndexes(locs)
    IN /\ locations' = locs
       /\ name_index' = ix.name_index
       /\ country_index' = ix.country_index
       /\ code_index' = ix.code_index
       /\ UNCHANGED <<entries, phonetic_index, cognate_index>>

NameCommit(ents) ==
    LET ix == NameRebuildIndexes(ents)
    IN /\ entries' = ents
       /\ name_index' = ix.name_index
       /\ phonetic_index' = ix.phonetic_index
       /\ cognate_index' = ix.cognate_index
       /\ UNCHANGED <<locations, country_index, code_index>>

\* a read-only call: what it was and what it returned
Returned(op, value) ==
    /\ last_op' = op
    /\ result' = value
    /\ UNCHANGED <<registry, StoreVars, HistoryVars>>

LocLoad ==
    /\ registry = "LocationRegistry"
    /\ \E src \in LocationFiles \cup {Missing} :
          LET locs == LocationRegistry_load(locations, src)
          IN /\ IF ~src.exists THEN UNCHANGED StoreVars ELSE LocCommit(locs)
             /\ last_op' = [op |-> "load", src |-> src, raised |-> ""]
             /\ committed' = IF ~src.exists THEN committed
                             ELSE [id \in Ids |-> DictGetOr(locs, id, None)]
    /\ result' = None
    /\ UNCHANGED registry

LocCreate ==
    /\ registry = "LocationRegistry"
    /\ \E location \in LocationPool :
          LET r == LocationRegistry_create(locations, location)
          IN /\ IF r.raised = "" THEN LocCommit(r.locations) ELSE UNCHANGED StoreVars
             /\ last_op' = [op |-> "create", id |-> location.location_id,
                            raised |-> r.raised]
             /\ result' = IF r.raised = "" THEN location ELSE None
             /\ committed' = IF r.raised = ""
                             THEN [committed EXCEPT ![location.location_id] = location]
                             ELSE committed
    /\ UNCHANGED registry

LocUpdate ==
    /\ registry = "LocationRegistry"
    /\ \E location \in LocationPool :
          LET r == LocationRegistry_update(locations, location)
          IN /\ IF r.raised = "" THEN LocCommit(r.locations) ELSE UNCHANGED StoreVars
             /\ last_op' = [op |-> "update", id |-> location.location_id,
                            raised |-> r.raised]
             /\ result' = IF r.raised = "" THEN location ELSE None
             /\ committed' = IF r.raised = ""
                             THEN [committed EXCEPT ![location.location_id] = location]
                             ELSE committed
    /\ UNCHANGED registry

LocDelete ==
    /\ registry = "LocationRegistry"
    /\ \E location_id \in Ids :
          LET r == LocationRegistry_delete(locations, location_id)
          IN /\ IF r.returned THEN LocCommit(r.locations) ELSE UNCHANGED StoreVars
             /\ last_op' = [op |-> "delete", id |-> location_id, raised |-> ""]
             /\ result' = r.returned
             /\ committed' = IF r.returned THEN [committed EXCEPT ![location_id] = None]
                             ELSE committed
    /\ UNCHANGED registry

LocRead ==
    /\ registry = "LocationRegistry"
    /\ \E location_id \in Ids :
          Returned([op |-> "read", id |-> location_id, raised |-> ""],
                   LocationRegistry_read(locations, location_id))

LocSearchExact ==
    /\ registry = "LocationRegistry"
    /\ \E name \in Queries :
          LET r == LocationRegistry_search_exact(locations, name_index, name)
          IN Returned([op |-> "search_exact", query |-> name, raised |-> r.raised],
                      r.value)

LocSearchByCode ==
    /\ registry = "LocationRegistry"
    /\ \E code \in Codes :
          Returned([op |-> "search_by_code", query |-> code, raised |-> ""],
                   LocationRegistry_search_by_code(locations, code_index, code))

LocFindByCountry ==
    /\ registry = "LocationRegistry"
    /\ \E country \in Countries \ {NoneStr} :
          LET r == LocationRegistry_find_by_country(locations, country_index, country)
          IN Returned([op |-> "find_by_country", query |-> country, raised |-> r.raised],
                      r.value)

\* the points and radii callers pass to search_by_coordinates
Longitudes == {0, 1}
Radii == {Rat(0, 1), Rat(111195, 1000), Rat(200, 1)}

LocSearchByCoordinates ==
    /\ registry = "LocationRegistry"
    /\ \E longitude \in Longitudes, radius_km \in Radii :
          LET r == LocationRegistry_search_by_coordinates(locations, 0, longitude,
                                                          radius_km)
          IN Returned([op |-> "search_by_coordinates", latitude |-> 0,
                       longitude |-> longitude, radius_km |-> radius_km,
                       raised |-> r.raised],
                      r.value)

LocSearch ==
    /\ registry = "LocationRegistry"
    /\ \E query \in Queries, include_historical \in BOOLEAN, country \in Countries :
          LET r == LocationRegistry_search(locations, name_index, query,
                                           include_historical, country)
          IN Returned([op |-> "search", query |-> query,
                       include_historical |-> include_historical,
                       country |-> country, raised |-> r.raised],
                      r.value)

NameLoad ==
    /\ registry = "NameRegistry"
    /\ \E src \in NameFiles \cup {Missing} :
          LET ents == NameRegistry_load(entries, src)
          IN /\ IF ~src.exists THEN UNCHANGED StoreVars ELSE NameCommit(ents)
             /\ last_op' = [op |-> "load", src |-> src, raised |-> ""]
             /\ committed' = IF ~src.exists THEN committed
                             ELSE [id \in Ids |-> DictGetOr(ents, id, None)]
    /\ result' = None
    /\ UNCHANGED registry

NameCreate ==
    /\ registry = "NameRegistry"
    /\ \E entry \in NamePool :
          LET r == NameRegistry_create(entries, entry)
              stamped == [entry EXCEPT !.date_modified = Now]
          IN /\ IF r.raised = "" THEN NameCommit(r.entries) ELSE UNCHANGED StoreVars
             /\ last_op' = [op |-> "create", id |-> entry.id, raised |-> r.raised]
             /\ result' = IF r.raised = "" THEN stamped ELSE None
             /\ committed' = IF r.raised = ""
                             THEN [committed EXCEPT ![entry.id] = stamped]
                             ELSE committed
    /\ UNCHANGED registry

NameUpdate ==
    /\ registry = "NameRegistry"
    /\ \E entry \in NamePool :
          LET r == NameRegistry_update(entries, entry)
              stamped == [entry EXCEPT !.date_modified = Now]
          IN /\ IF r.raised = "" THEN NameCommit(r.entries) ELSE UNCHANGED StoreVars
             /\ last_op' = [op |-> "update", id |-> entry.id, raised |-> r.raised]
             /\ result' = IF r.raised = "" THEN stamped ELSE None
             /\ committed' = IF r.raised = ""
                             THEN [committed EXCEPT ![entry.id] = stamped]
                             ELSE committed
    /\ UNCHANGED registry

NameDelete ==
    /\ registry = "NameRegistry"
    /\ \E entry_id \in Ids :
          LET r == NameRegistry_delete(entries, entry_id)
          IN /\ IF r.returned THEN NameCommit(r.entries) ELSE UNCHANGED StoreVars
             /\ last_op' = [op |-> "delete", id |-> entry_id, raised |-> ""]
             /\ result' = r.returned
             /\ committed' = IF r.returned THEN [committed EXCEPT ![entry_id] = None]
                             ELSE committed
    /\ UNCHANGED registry

NameRead ==
    /\ registry = "NameRegistry"
    /\ \E entry_id \in Ids :
          Returned([op |-> "read", id |-> entry_id, raised |-> ""],
                   NameRegistry_read(entries, entry_id))

NameSearchExact ==
    /\ registry = "NameRegistry"
    /\ \E name \in Queries :
          LET r == NameRegistry_search_exact(entries, name_index, name)
          IN Returned([op |-> "search_exact", query |-> name, raised |-> r.raised],
                      r.value)

NameSearchPhonetic ==
    /\ registry = "NameRegistry"
    /\ \E method \in Methods :
          LET r == NameRegistry_search_phonetic(entries, phonetic_index, S_A1, method)
          IN Returned([op |-> "search_phonetic", query |-> S_A1, method |-> method,
                       raised |-> r.raised],
                      r.value)

NameSearchCognates ==
    /\ registry = "NameRegistry"
    /\ \E name \in Queries :
          LET r == NameRegistry_search_cognates(entries, cognate_index, name)
          IN Returned([op |-> "search_cognates", query |-> name, raised |-> r.raised],
                      r.value)

NameSearch ==
    /\ registry = "NameRegistry"
    /\ \E query \in Queries, include_variants \in BOOLEAN, include_cognates \in BOOLEAN,
          name_type \in NameTypes :
          LET r == NameRegistry_search(entries, name_index, cognate_index, query,
                                       include_variants, include_cognates, name_type)
          IN Returned([op |-> "search", query |-> query,
                       include_variants |-> include_variants,
                       include_cognates |-> include_cognates,
                       name_type |-> name_type, raised |-> r.raised],
                      r.value)

Resolve ==
    /\ registry = "NameRegistry"
    /\ \E name \in Queries, name_type \in NameTypes, fuzzy \in BOOLEAN,
          cross_language \in BOOLEAN, fuzzy_threshold \in Thresholds :
          LET r == NameResolver_resolve(entries, name_index, cognate_index, name,
                                        name_type, fuzzy, cross_language,
                                        fuzzy_threshold)
          IN Returned([op |-> "resolve", query |-> name, name_type |-> name_type,
                       fuzzy |-> fuzzy, cross_language |-> cross_language,
                       fuzzy_threshold |-> fuzzy_threshold, raised |-> r.raised],
                      r.value)

\* A session is any sequence of mutating calls followed by one read-only call:
\* read-only calls change nothing, so each is explored once from every registry state.
Open == last_op.op \in {"init", "load", "create", "update", "delete"}

\* the history of deletions is not kept
NoTrack == UNCHANGED <<deleted, PersonVars>>

\* the history of deletions: the ids deleted since the collection was last loaded
Track ==
    /\ deleted' = CASE last_op'.op = "delete" /\ result' = TRUE -> deleted \cup {last_op'.id}
                    [] last_op'.op = "load" /\ last_op'.src.exists -> {}
                    [] OTHER -> deleted
    /\ UNCHANGED PersonVars

Next ==
    \/ Open /\ LocLoad /\ NoTrack
    \/ Open /\ LocCreate /\ NoTrack
    \/ Open /\ LocRead /\ NoTrack
    \/ Open /\ LocUpdate /\ NoTrack
    \/ Open /\ LocDelete /\ NoTrack
    \/ Open /\ LocSearchExact /\ NoTrack
    \/ Open /\ LocSearchByCode /\ NoTrack
    \/ Open /\ LocFindByCountry /\ NoTrack
    \/ Open /\ NameLoad /\ NoTrack
    \/ Open /\ NameCreate /\ NoTrack
    \/ Open /\ NameRead /\ NoTrack
    \/ Open /\ NameUpdate /\ NoTrack
    \/ Open /\ NameDelete /\ NoTrack
    \/ Open /\ NameSearchExact /\ NoTrack
    \/ Open /\ NameSearchPhonetic /\ NoTrack
    \/ Open /\ NameSearchCognates /\ NoTrack

Spec == Init /\ [][Next]_vars

\* sessions of load, create and delete, with the history of deletions kept
NextSession ==
    \/ LocLoad /\ Track
    \/ LocCreate /\ Track
    \/ LocDelete /\ Track
    \/ NameLoad /\ Track
    \/ NameCreate /\ Track
    \/ NameDelete /\ Track

SpecSession == Init /\ [][NextSession]_vars

\* sessions that fill a registry with create and then search it
NextQuery ==
    \/ Open /\ LocCreate /\ NoTrack
    \/ Open /\ LocSearch /\ NoTrack
    \/ Open /\ NameCreate /\ NoTrack
    \/ Open /\ NameSearch /\ NoTrack
    \/ Open /\ Resolve /\ NoTrack

SpecQuery == Init /\ [][NextQuery]_vars

\* queries that spell a name with other case, with a period, with more whitespace
SpelledQueries == {S_AB, <<"a", "b", ".">>, <<" ", "a", "b">>}

\* search_exact of the registry in use, with a query spelled another way
SearchExactSpelled ==
    \E name \in SpelledQueries :
       LET r == IF registry = "LocationRegistry"
                THEN LocationRegistry_search_exact(locations, name_index, name)
                ELSE NameRegistry_search_exact(entries, name_index, name)
       IN Returned([op |-> "search_exact", query |-> name, raised |-> r.raised], r.value)

\* a caller who creates records and looks names up
NextExact ==
    \/ Open /\ LocCreate /\ NoTrack
    \/ Open /\ NameCreate /\ NoTrack
    \/ Open /\ SearchExactSpelled /\ NoTrack

SpecExact == Init /\ [][NextExact]_vars

\* the arguments of merge_geographic_usage and update_fields
UsageHere == [region |-> S_ab, country |-> NoneStr, time_period |-> NoneStr,
              frequency |-> NoneStr, location_id |-> NoneStr]
UsageLists == { <<UsageHere>>,
                <<[UsageHere EXCEPT !.country = S_us],
                  [UsageHere EXCEPT !.frequency = S_bc]>>,
                <<[UsageHere EXCEPT !.time_period = S_bc],
                  [UsageHere EXCEPT !.time_period = S_bc, !.frequency = S_bc]>> }
MergeStrategies == {"accumulate", "replace", "merge"}
FieldDicts == { [name |-> S_AB], [nickname |-> S_ab] } \cup { [id |-> i] : i \in Ids }

NameMergeGeographicUsage ==
    /\ registry = "NameRegistry"
    /\ \E name_id \in Ids, usage_entries \in UsageLists, merge_strategy \in MergeStrategies :
          LET r == NameRegistry_merge_geographic_usage(entries, name_id, usage_entries,
                                                       merge_strategy)
          IN /\ IF r.raised = "" THEN NameCommit(r.entries) ELSE UNCHANGED StoreVars
             /\ last_op' = [op |-> "merge_geographic_usage", id |-> name_id,
                            usage_entries |-> usage_entries,
                            merge_strategy |-> merge_strategy, raised |-> r.raised]
             /\ result' = None
             /\ committed' = IF r.raised = ""
                             THEN [committed EXCEPT ![name_id] = DictGet(r.entries, name_id)]
                             ELSE committed
    /\ UNCHANGED registry

NameUpdateFields ==
    /\ registry = "NameRegistry"
    /\ \E name_id \in Ids, fields \in FieldDicts :
          LET r == NameRegistry_update_fields(entries, name_id, fields)
          IN /\ IF r.raised = "" THEN NameCommit(r.entries) ELSE UNCHANGED StoreVars
             /\ last_op' = [op |-> "update_fields", id |-> name_id, fields |-> fields,
                            raised |-> r.raised]
             /\ result' = None
             /\ committed' = IF r.raised = ""
                             THEN [committed EXCEPT ![name_id] = DictGet(r.entries, name_id)]
                             ELSE committed
    /\ UNCHANGED registry

\* a caller who creates, updates, deletes and loads, and changes entries in place
NextFields ==
    \/ Open /\ NameLoad /\ NoTrack
    \/ Open /\ NameCreate /\ NoTrack
    \/ Open /\ NameUpdate /\ NoTrack
    \/ Open /\ NameDelete /\ NoTrack
    \/ Open /\ NameMergeGeographicUsage /\ NoTrack
    \/ Open /\ NameUpdateFields /\ NoTrack

SpecFields == Init /\ [][NextFields]_vars

\* the object the last call handed to the caller, or took from the caller and
\* stored: create and update store the object they are passed, read and search_exact
\* return the stored objects themselves
HeldObject ==
    IF last_op.op = "search_exact" THEN result[1] ELSE result

\* a caller assigns to the name field of an object it holds; no method of the
\* registry runs and no index is rebuilt
CallerMutates ==
    /\ last_op.op \in {"create", "update", "read", "search_exact"}
    /\ last_op.raised = ""
    /\ IF last_op.op = "search_exact" THEN result # <<>> ELSE result # None
    /\ IF registry = "LocationRegistry"
       THEN /\ locations' = DictSet(locations, HeldObject.location_id,
                                    [HeldObject EXCEPT !.modern_name = S_bc])
            /\ last_op' = [op |-> "mutate", id |-> HeldObject.location_id, raised |-> ""]
            /\ result' = [HeldObject EXCEPT !.modern_name = S_bc]
            /\ UNCHANGED entries
       ELSE /\ entries' = DictSet(entries, HeldObject.id, [HeldObject EXCEPT !.name = S_AB])
            /\ last_op' = [op |-> "mutate", id |-> HeldObject.id, raised |-> ""]
            /\ result' = [HeldObject EXCEPT !.name = S_AB]
            /\ UNCHANGED locations
    /\ UNCHANGED <<registry, name_index, country_index, code_index, phonetic_index,
                   cognate_index, HistoryVars>>

\* a caller who creates, reads, searches, and assigns to what it holds
NextAlias ==
    \/ Open /\ LocCreate /\ NoTrack
    \/ Open /\ LocRead /\ NoTrack
    \/ Open /\ NameCreate /\ NoTrack
    \/ Open /\ NameSearchExact /\ NoTrack
    \/ CallerMutates /\ NoTrack

SpecAlias == Init /\ [][NextAlias]_vars

\* a caller of the location registry who creates, deletes and searches by coordinates
NextNear ==
    \/ Open /\ LocCreate /\ NoTrack
    \/ Open /\ LocDelete /\ NoTrack
    \/ Open /\ LocSearchByCoordinates /\ NoTrack

SpecNear == Init /\ [][NextNear]_vars

-----------------------------------------------------------------------------
(* Two threads on one LocationRegistry: a writer inside create, update or delete,
   statement by statement, and a reader whose calls fall between the statements.
   last_op is the writer's call and its position, result what the reader got *)

\* fault: the loop of _rebuild_indexes passes over the first location
LocIndexesAfter_skips(locs, done) == LocRebuildIndexes(SubSeq(locs, 2, done))

\* _rebuild_indexes after done rounds of its loop over self.locations.items()
LocIndexesAfter(locs, done) == LocRebuildIndexes(SubSeq(locs, 1, done))

InitThreads ==
    /\ registry = "LocationRegistry"
    /\ locations = <<>>
    /\ entries = <<>>
    /\ name_index = <<>>
    /\ country_index = <<>>
    /\ code_index = <<>>
    /\ phonetic_index = <<>>
    /\ cognate_index = <<>>
    /\ last_op = [op |-> "init", id |-> 0, raised |-> "", pc |-> "idle", done |-> 0]
    /\ result = None
    /\ committed = [id \in Ids |-> None]
    /\ deleted = {}
    /\ NoPersons

\* the locations the writer passes to create and update: one for each id
WriterPool == {LocationFromDict(d) : d \in LocationFileDicts}

\* the writer's call ran up to its call of _rebuild_indexes (ok), or ended before it
WriterMutates(op, id, raised, ok, locs) ==
    /\ locations' = locs
    /\ last_op' = [op |-> op, id |-> id, raised |-> raised,
                   pc |-> IF ok THEN "mutated" ELSE "idle", done |-> 0]
    /\ UNCHANGED <<registry, entries, name_index, country_index, code_index,
                   phonetic_index, cognate_index, result, committed, deleted, PersonVars>>

\* create: the test and self.locations[location_id] = location
WriterCreate ==
    /\ last_op.pc = "idle"
    /\ \E location \in WriterPool :
          LET r == LocationRegistry_create(locations, location)
          IN WriterMutates("create", location.location_id, r.raised, r.raised = "",
                           r.locations)

\* update: the test and self.locations[location_id] = location
WriterUpdate ==
    /\ last_op.pc = "idle"
    /\ \E location \in WriterPool :
          LET r == LocationRegistry_update(locations, location)
          IN WriterMutates("update", location.location_id, r.raised, r.raised = "",
                           r.locations)

\* delete: the test and del self.locations[location_id]
WriterDelete ==
    /\ last_op.pc = "idle"
    /\ \E location_id \in Ids :
          LET r == LocationRegistry_delete(locations, location_id)
          IN WriterMutates("delete", location_id, "", r.returned, r.locations)

\* the indexes are those after done rounds of the loop; the call returns after the last
WriterIndexes(done) ==
    LET ix == LocIndexesAfter(locations, done)
    IN /\ name_index' = ix.name_index
       /\ country_index' = ix.country_index
       /\ code_index' = ix.code_index
       /\ last_op' = [last_op EXCEPT !.done = done,
                         !.pc = IF done = Len(locations) THEN "idle" ELSE "rebuilding"]
       /\ UNCHANGED <<registry, locations, entries, phonetic_index, cognate_index,
                      result, committed, deleted, PersonVars>>

\* _rebuild_indexes: the three clear() calls
WriterClears ==
    /\ last_op.pc = "mutated"
    /\ WriterIndexes(0)

\* _rebuild_indexes: one round of the loop
WriterIndexesNext ==
    /\ last_op.pc = "rebuilding"
    /\ WriterIndexes(last_op.done + 1)

\* the reader's call returned, the writer where it was
ReaderGot(op, query, r) ==
    /\ result' = [op |-> op, query |-> query, raised |-> r.raised, value |-> r.value]
    /\ UNCHANGED <<registry, StoreVars, HistoryVars, deleted, PersonVars, last_op>>

ReaderSearchExact ==
    \E name \in Queries :
       ReaderGot("search_exact", name,
                 LocationRegistry_search_exact(locations, name_index, name))

ReaderFindByCountry ==
    \E country \in Countries \ {NoneStr} :
       ReaderGot("find_by_country", country,
                 LocationRegistry_find_by_country(locations, country_index, country))

ReaderSearch ==
    \E query \in Queries :
       ReaderGot("search", query,
                 LocationRegistry_search(locations, name_index, query, TRUE, NoneStr))

NextThreads ==
    \/ WriterCreate
    \/ WriterUpdate
    \/ WriterDelete
    \/ WriterClears
    \/ WriterIndexesNext
    \/ ReaderSearchExact
    \/ ReaderFindByCountry
    \/ ReaderSearch

SpecThreads == InitThreads /\ [][NextThreads]_vars

-----------------------------------------------------------------------------
(* What a caller observes of the registry in use *)

IsLoc == registry = "LocationRegistry"

\* the collection of the registry in use
Collection == IF IsLoc THEN locations ELSE entries

\* the identifier field of a record and of a record dict
RecId(rec) == IF IsLoc THEN rec.location_id ELSE rec.id
IdsOf(recs) == {RecId(recs[i]) : i \in 1..Len(recs)}

\* read(id)
Read(id) ==
    IF IsLoc THEN LocationRegistry_read(locations, id) ELSE NameRegistry_read(entries, id)

\* the lookups, on the present collection and indexes
ByName(q) ==
    IF IsLoc THEN LocationRegistry_search_exact(locations, name_index, q)
    ELSE NameRegistry_search_exact(entries, name_index, q)
ByCountry(q) == LocationRegistry_find_by_country(locations, country_index, q)
ByCode(c) == LocationRegistry_search_by_code(locations, code_index, c)
ByCognate(q) == NameRegistry_search_cognates(entries, cognate_index, q)
ByPhonetic(v, method) == NameRegistry_search_phonetic(entries, phonetic_index, v, method)

\* the names, countries, codes, cognate forms and phonetic codes a record carries,
\* as its fields spell them
NamesOf(rec) ==
    IF IsLoc
    THEN {rec.modern_name} \cup SeqToSet(rec.historical_names)
                           \cup SeqToSet(rec.alternate_spellings)
    ELSE {rec.name} \cup SeqToSet(rec.spelling_variants)
CountriesOf(rec) ==
    IF IsLoc /\ rec.hierarchy # None
    THEN {rec.hierarchy.country} \ {NoneStr, <<>>} ELSE {}
CodesOf(rec) ==
    IF IsLoc /\ rec.codes # None
    THEN {rec.codes.iso_3166_1, rec.codes.iso_3166_2, rec.codes.fips} \ {NoneStr, <<>>}
    ELSE {}
CognatesOf(rec) == IF IsLoc THEN {} ELSE SeqToSet(rec.cross_language_forms)
PhoneticsOf(rec) == IF IsLoc THEN {} ELSE {rec.phonetic[i].value : i \in 1..Len(rec.phonetic)}

LowerAll(S) == {Lower(x) : x \in S}

\* every text some record or some index knows, and the texts callers ask for
KnownTexts ==
    UNION { NamesOf(Collection[i].val) \cup CountriesOf(Collection[i].val)
            \cup CodesOf(Collection[i].val) \cup CognatesOf(Collection[i].val)
            \cup PhoneticsOf(Collection[i].val) : i \in 1..Len(Collection) }
    \cup DictKeys(name_index) \cup DictKeys(country_index) \cup DictKeys(code_index)
    \cup DictKeys(phonetic_index) \cup DictKeys(cognate_index)
    \cup Queries \cup Codes \cup {S_A1}

\* the ids that some index lookup returns for the text k
LookupIds(k) ==
    IF IsLoc
    THEN IdsOf(ByName(k).value) \cup IdsOf(ByCountry(k).value)
         \cup (IF ByCode(k) = None THEN {} ELSE {ByCode(k).location_id})
    ELSE IdsOf(ByName(k).value) \cup IdsOf(ByCognate(k).value)
         \cup IdsOf(ByPhonetic(k, "").value)

\* some index lookup for the text k meets an id that is not in the collection
LookupRaises(k) ==
    IF IsLoc THEN ByName(k).raised # "" \/ ByCountry(k).raised # ""
    ELSE ByName(k).raised # "" \/ ByCognate(k).raised # "" \/ ByPhonetic(k, "").raised # ""

\* no lookup raises, and no lookup returns an id that is not in the collection
LookupsSound ==
    \A k \in KnownTexts : ~LookupRaises(k) /\ LookupIds(k) \subseteq DictKeys(Collection)

\* the record is returned by the lookup of each of its names, countries, cognate forms
\* and phonetic codes, and each of its codes leads to a record that carries the code
FoundByItsFields(rec) ==
    /\ \A q \in NamesOf(rec) : rec \in SeqToSet(ByName(q).value)
    /\ \A q \in CountriesOf(rec) : rec \in SeqToSet(ByCountry(q).value)
    /\ \A c \in CodesOf(rec) : ByCode(c) # None /\ c \in CodesOf(ByCode(c))
    /\ \A q \in CognatesOf(rec) : rec \in SeqToSet(ByCognate(q).value)
    /\ \A v \in PhoneticsOf(rec) : rec \in SeqToSet(ByPhonetic(v, "").value)

\* no lookup of the text k returns the id
NotFoundUnder(id, k) ==
    IF IsLoc
    THEN /\ id \notin IdsOf(ByName(k).value)
         /\ id \notin IdsOf(ByCountry(k).value)
         /\ ByCode(k) # None => ByCode(k).location_id # id
    ELSE /\ id \notin IdsOf(ByName(k).value)
         /\ id \notin IdsOf(ByCognate(k).value)
         /\ id \notin IdsOf(ByPhonetic(k, "").value)

-----------------------------------------------------------------------------
(* C1: index lookups against linear scans *)

\* full linear scans of the collection
ScanLocName(q) ==
    {id \in DictKeys(locations) :
        LET loc == DictGet(locations, id)
        IN \/ Lower(loc.modern_name) = Lower(q)
           \/ \E i \in 1..Len(loc.historical_names) :
                 Lower(loc.historical_names[i]) = Lower(q)
           \/ \E i \in 1..Len(loc.alternate_spellings) :
                 Lower(loc.alternate_spellings[i]) = Lower(q)}
ScanLocCountry(q) ==
    {id \in DictKeys(locations) :
        LET loc == DictGet(locations, id)
        IN /\ loc.hierarchy # None
           /\ Truthy(loc.hierarchy.country)
           /\ Lower(loc.hierarchy.country) = Lower(q)}
ScanLocCode(c) ==
    {id \in DictKeys(locations) :
        LET loc == DictGet(locations, id)
        IN /\ loc.codes # None
           /\ c \in {loc.codes.iso_3166_1, loc.codes.iso_3166_2, loc.codes.fips}}
ScanName(q) ==
    {id \in DictKeys(entries) :
        LET entry == DictGet(entries, id)
        IN \/ Lower(entry.name) = Lower(q)
           \/ \E i \in 1..Len(entry.spelling_variants) :
                 Lower(entry.spelling_variants[i]) = Lower(q)}
ScanCognate(q) ==
    {id \in DictKeys(entries) :
        LET entry == DictGet(entries, id)
        IN \E i \in 1..Len(entry.cross_language_forms) :
              Lower(entry.cross_language_forms[i]) = Lower(q)}
ScanPhonetic(v, method) ==
    {id \in DictKeys(entries) :
        LET entry == DictGet(entries, id)
        IN \E i \in 1..Len(entry.phonetic) :
              /\ entry.phonetic[i].value = v
              /\ (~TruthyTag(method) \/ entry.phonetic[i].method = method)}

\* C1: after any sequence of create, update, delete and load, every index lookup
\* (search_exact, search_cognates, search_phonetic, find_by_country, search_by_code)
\* returns exactly the set of record ids a full linear scan of the collection returns
\* for the key, and never meets an id that is absent from the collection.
C1_IndexLookupsMatchScan ==
    /\ last_op.op \in {"search_exact", "search_cognates", "search_phonetic",
                       "find_by_country", "search_by_code"}
          => last_op.raised = ""
    /\ last_op.op = "search_exact" /\ IsLoc => IdsOf(result) = ScanLocName(last_op.query)
    /\ last_op.op = "search_exact" /\ ~IsLoc => IdsOf(result) = ScanName(last_op.query)
    /\ last_op.op = "search_cognates" => IdsOf(result) = ScanCognate(last_op.query)
    /\ last_op.op = "search_phonetic"
          => IdsOf(result) = ScanPhonetic(last_op.query, last_op.method)
    /\ last_op.op = "find_by_country" => IdsOf(result) = ScanLocCountry(last_op.query)
    /\ last_op.op = "search_by_code"
          => (IF result = None THEN {} ELSE {result.location_id})
                = ScanLocCode(last_op.query)

-----------------------------------------------------------------------------
(* C2: read *)

\* C2: read(id) returns the record most recently committed for id by a successful
\* create or update (or load), None when id was never created or was deleted since,
\* and does not raise.
C2_ReadReturnsLastCommitted ==
    last_op.op = "read" => last_op.raised = "" /\ result = committed[last_op.id]

\* a read that returned a stored record
C2_Witness ==
    /\ last_op.op = "read"
    /\ result # None
    /\ result = committed[last_op.id]

-----------------------------------------------------------------------------
(* C3: create *)

\* C3: create of an id already in the registry raises ValueError and leaves the
\* collection and every index unchanged; create of a new id inserts the record, and
\* the next lookup of each of its names, countries, codes, cognate forms and phonetic
\* codes returns it.
C3_Create ==
    /\ [][\A id \in Ids : last_op'.op = "create" /\ last_op'.id = id =>
            IF id \in DictKeys(Collection)
            THEN /\ last_op'.raised = "ValueError"
                 /\ UNCHANGED StoreVars
            ELSE /\ last_op'.raised = ""
                 /\ DictKeys(Collection)' = DictKeys(Collection) \cup {id}
                 /\ \A other \in DictKeys(Collection) : Read(other)' = Read(other)]_vars
    /\ [](last_op.op = "create" /\ last_op.raised = "" =>
            /\ RecId(result) = last_op.id
            /\ Read(last_op.id) = result
            /\ FoundByItsFields(result)
            /\ \A c \in CodesOf(result) : ByCode(c) = result
            /\ LookupsSound)

\* a create that was refused for an id already there
C3_Witness ==
    /\ last_op.op = "create"
    /\ last_op.raised = "ValueError"
    /\ last_op.id \in DictKeys(Collection)

-----------------------------------------------------------------------------
(* C4: update *)

-----------------------------------------------------------------------------
(* C5: delete *)

\* every text a record carries in a field some index is built from
TextsOf(rec) ==
    NamesOf(rec) \cup CountriesOf(rec) \cup CodesOf(rec) \cup CognatesOf(rec)
                 \cup PhoneticsOf(rec)

\* C5: delete(id) does not raise; for an id that is not in the registry it returns
\* False and leaves the collection and the indexes unchanged; for an id that is there
\* it returns True, after which read(id) is None and no index lookup returns the id.
C5_Delete ==
    /\ [][\A id \in Ids : last_op'.op = "delete" /\ last_op'.id = id =>
            /\ last_op'.raised = ""
            /\ IF id \notin DictKeys(Collection)
               THEN /\ result' = FALSE
                    /\ UNCHANGED StoreVars
               ELSE LET old == DictGet(Collection, id)
                    IN /\ result' = TRUE
                       /\ DictKeys(Collection)' = DictKeys(Collection) \ {id}
                       /\ \A k \in TextsOf(old) : NotFoundUnder(id, k)' /\ ~LookupRaises(k)'
                       /\ \A other \in DictKeys(Collection)' :
                             Read(other)' = Read(other)]_vars
    /\ [](last_op.op = "delete" /\ result = TRUE =>
            /\ Read(last_op.id) = None
            /\ \A k \in KnownTexts : NotFoundUnder(last_op.id, k) /\ ~LookupRaises(k))

\* a delete that removed one record and left another in the registry
C5_Witness ==
    /\ last_op.op = "delete"
    /\ result = TRUE
    /\ Read(last_op.id) = None
    /\ Collection # <<>>

-----------------------------------------------------------------------------
(* C6: load *)

\* the identifier of a record dict of a JSON source
DictId(d) == IF IsLoc THEN d.location_id ELSE d.id
\* from_dict of the registry in use
FromDict(d) == IF IsLoc THEN LocationFromDict(d) ELSE NameEntryFromDict(d)

\* the collection holds exactly the records of the source, and the indexes lead to them
HoldsExactly(data) ==
    /\ DictKeys(Collection) = {DictId(data[i]) : i \in 1..Len(data)}
    /\ \A i \in 1..Len(data) :
          /\ Read(DictId(data[i])) = FromDict(data[i])
          /\ FoundByItsFields(FromDict(data[i]))
    /\ LookupsSound

IndexesEmpty ==
    /\ name_index = <<>>
    /\ country_index = <<>>
    /\ code_index = <<>>
    /\ phonetic_index = <<>>
    /\ cognate_index = <<>>

\* C6: load() replaces the whole collection by the records of the source and rebuilds
\* the indexes; on a missing source it does not raise, and afterwards the collection
\* and all indexes are empty whatever the registry held before.
C6_LoadReplacesOrEmpties ==
    last_op.op = "load" =>
       /\ last_op.raised = ""
       /\ IF last_op.src.exists
          THEN HoldsExactly(last_op.src.data)
          ELSE Collection = <<>> /\ IndexesEmpty

\* C6 as the code has it: load() from a source that exists replaces the whole
\* collection by the records of the source and rebuilds the indexes; on a missing
\* source it does not raise and leaves the collection and the indexes as they were.
C6_Load ==
    /\ [](last_op.op = "load" /\ last_op.src.exists
             => last_op.raised = "" /\ HoldsExactly(last_op.src.data))
    /\ [][last_op'.op = "load" /\ ~last_op'.src.exists
             => last_op'.raised = "" /\ UNCHANGED StoreVars]_vars

\* a load from a missing source on a registry that holds records
C6_Witness ==
    /\ last_op.op = "load"
    /\ ~last_op.src.exists
    /\ Collection # <<>>
    /\ ~IndexesEmpty

-----------------------------------------------------------------------------
(* C7: identifiers *)

-----------------------------------------------------------------------------
(* C8 .. C10: the order and the tiers of search and resolve *)

\* the call that ran last
IsResolve == last_op.op = "resolve"
IsLocSearch == last_op.op = "search" /\ IsLoc
IsNameSearch == last_op.op = "search" /\ ~IsLoc

\* a hit of the exact tier: an exact-index hit, confidence 1.0
IsExactHit(r) == r.match_type \in {"exact", "historical"}

\* C8: in the list NameResolver.resolve returns with fuzzy enabled, and in the list
\* LocationRegistry.search returns, every exact hit stands before every fuzzy hit:
\* an exact hit has confidence 1.0 and a fuzzy hit at most 0.8.
C8_ExactBeforeFuzzy ==
    (IsResolve /\ last_op.fuzzy) \/ IsLocSearch =>
       /\ last_op.raised = ""
       /\ \A i, j \in 1..Len(result) :
             IsExactHit(result[i]) /\ result[j].match_type = "fuzzy" => i < j
       /\ \A i \in 1..Len(result) :
             /\ IsExactHit(result[i]) => REq(result[i].confidence, Rat(1, 1))
             /\ result[i].match_type = "fuzzy" => RLe(result[i].confidence, Rat(8, 10))

\* a resolve with fuzzy enabled that returned an exact hit and a fuzzy hit
C8_Witness ==
    /\ IsResolve
    /\ last_op.fuzzy
    /\ \E i, j \in 1..Len(result) :
          IsExactHit(result[i]) /\ result[j].match_type = "fuzzy"

\* what resolve hands to its final sort: a list of registry hits, then the fuzzy hits
ResolveReceives(found) ==
    found \o (IF last_op.fuzzy
              THEN NameResolver_fuzzy_search(entries, last_op.query, last_op.name_type,
                                             last_op.fuzzy_threshold, NameSeenIds(found))
              ELSE <<>>)

\* the registry hits of the resolve that ran last, in the order the tiers produced them
TierOrder ==
    NameSearchTiers(entries, name_index, cognate_index, last_op.query, TRUE,
                    last_op.cross_language, last_op.name_type).value

\* the registry hits of the resolve that ran last, in the order NameRegistry.search
\* returned them
SearchOrder ==
    NameRegistry_search(entries, name_index, cognate_index, last_op.query, TRUE,
                        last_op.cross_language, last_op.name_type).value

\* the place of a result in a list
PlaceIn(list, r) == CHOOSE p \in 1..Len(list) : list[p] = r

\* the result is a rearrangement of the list in non-increasing order of confidence
\* in which results of equal confidence keep the order they have in the list
StablyOrdered(list) ==
    /\ Len(result) = Len(list)
    /\ SeqToSet(result) = SeqToSet(list)
    /\ \A i, j \in 1..Len(result) :
          i < j => /\ RLe(result[j].confidence, result[i].confidence)
                   /\ REq(result[i].confidence, result[j].confidence)
                         => PlaceIn(list, result[i]) < PlaceIn(list, result[j])

ByPrimaryName(entry) == Lower(entry.name) = Lower(last_op.query)
\* the query reaches the entry through a spelling variant and not its primary name
ByVariantOnly(entry) ==
    /\ ~ByPrimaryName(entry)
    /\ \E i \in 1..Len(entry.spelling_variants) :
          Lower(entry.spelling_variants[i]) = Lower(last_op.query)

\* C10: in NameRegistry.search and NameResolver.resolve with variants enabled, an
\* entry the query reaches through a spelling variant and not through its primary
\* name has confidence 0.9 and match type "variant", and only entries whose primary
\* name equals the query have confidence 1.0 and match type "exact".
C10_VariantTier ==
    (IsNameSearch /\ last_op.include_variants) \/ IsResolve =>
       \A i \in 1..Len(result) :
          /\ ByVariantOnly(result[i].entry)
                => /\ REq(result[i].confidence, Rat(9, 10))
                   /\ result[i].match_type = "variant"
          /\ result[i].match_type = "exact" \/ REq(result[i].confidence, Rat(1, 1))
                => ByPrimaryName(result[i].entry)

-----------------------------------------------------------------------------
(* C11: one result per record, from the first tier that claimed it *)

\* the identifier of the record of a result
ResultId(r) == IF IsLoc THEN r.location.location_id ELSE r.entry.id

\* the cognate tier runs in the call that ran last
CognatesAsked ==
    IF IsResolve THEN last_op.cross_language ELSE IsNameSearch /\ last_op.include_cognates

\* C11: in the result of one query to NameRegistry.search, NameResolver.resolve or
\* LocationRegistry.search every record id appears at most once, with the confidence
\* and match type of the first tier (exact, variant, cognate, fuzzy) that claimed it:
\* a record the exact index holds under the query is an exact-tier hit, confidence 1.0;
\* otherwise a record the cognate index holds under the query, when cognates are
\* asked for, is a cognate hit, confidence 0.8; only the others are fuzzy hits.
C11_OncePerRecordFirstTier ==
    IsResolve \/ IsNameSearch \/ IsLocSearch =>
       /\ \A i, j \in 1..Len(result) : ResultId(result[i]) = ResultId(result[j]) => i = j
       /\ \A i \in 1..Len(result) :
             LET r == result[i]
                 id == ResultId(r)
             IN IF IsLoc
                THEN IF id \in ScanLocName(last_op.query)
                     THEN IsExactHit(r) /\ REq(r.confidence, Rat(1, 1))
                     ELSE r.match_type = "fuzzy"
                ELSE IF id \in ScanName(last_op.query)
                     THEN r.match_type = "exact" /\ REq(r.confidence, Rat(1, 1))
                     ELSE IF CognatesAsked /\ id \in ScanCognate(last_op.query)
                     THEN r.match_type = "cognate" /\ REq(r.confidence, Rat(8, 10))
                     ELSE IsResolve /\ last_op.fuzzy /\ r.match_type = "fuzzy"

\* a resolve with cognates and fuzzy matching whose cognate hit is also similar enough
\* to the query for the fuzzy tier
C11_Witness ==
    /\ IsResolve
    /\ last_op.fuzzy
    /\ \E i \in 1..Len(result) :
          /\ result[i].match_type = "cognate"
          /\ RLe(last_op.fuzzy_threshold,
                 Ratio(Lower(last_op.query), Lower(result[i].entry.name)))

-----------------------------------------------------------------------------
(* C12: the fuzzy tier *)

\* the threshold of the fuzzy tier of the call that ran last: the caller's for resolve,
\* 0.7 for LocationRegistry.search
FuzzyThreshold == IF IsLoc THEN Rat(7, 10) ELSE last_op.fuzzy_threshold

\* the similarity of the record of a result to the query
SimilarityOf(r) ==
    Ratio(Lower(last_op.query),
          Lower(IF IsLoc THEN r.location.modern_name ELSE r.entry.name))

\* c = 0.5 + (s - t) / (1 - t) * 0.3, for t < 1, free of division
ScaledBy(c, s, t) ==
    REq(RMul(RSub(c, Rat(1, 2)), RMul(Rat(10, 1), RSub(Rat(1, 1), t))),
        RMul(Rat(3, 1), RSub(s, t)))

\* C12: the fuzzy tier emits a record only when its similarity s to the query is at
\* least the threshold t, with confidence 0.5 + (s - t) / (1 - t) * 0.3, which lies in
\* [0.5, 0.8] for every threshold passed; the formula gives 0.5 at s = t and 0.8 at
\* s = 1.
C12_FuzzyConfidence ==
    /\ IsResolve \/ IsLocSearch =>
          /\ last_op.raised = ""
          /\ \A i \in 1..Len(result) :
                result[i].match_type = "fuzzy" =>
                   /\ RLe(FuzzyThreshold, SimilarityOf(result[i]))
                   /\ RLt(FuzzyThreshold, Rat(1, 1))
                   /\ ScaledBy(result[i].confidence, SimilarityOf(result[i]), FuzzyThreshold)
                   /\ RLe(Rat(1, 2), result[i].confidence)
                   /\ RLe(result[i].confidence, Rat(8, 10))
                   /\ REq(SimilarityOf(result[i]), FuzzyThreshold)
                         => REq(result[i].confidence, Rat(1, 2))
    /\ \A t \in Thresholds \ {Rat(1, 1)} :
          /\ REq(FuzzyConfidence(t, t), Rat(1, 2))
          /\ REq(FuzzyConfidence(Rat(1, 1), t), Rat(8, 10))
    /\ REq(LocFuzzyConfidence(Rat(7, 10)), Rat(1, 2))
    /\ REq(LocFuzzyConfidence(Rat(1, 1)), Rat(8, 10))

\* a resolve that returned a fuzzy hit whose similarity is exactly the threshold
C12_Witness ==
    /\ IsResolve
    /\ \E i \in 1..Len(result) :
          /\ result[i].match_type = "fuzzy"
          /\ REq(SimilarityOf(result[i]), last_op.fuzzy_threshold)
          /\ REq(result[i].confidence, Rat(1, 2))

-----------------------------------------------------------------------------
(* C13: the filters *)

\* C13: when a filter is supplied (country for LocationRegistry.search, name_type for
\* NameRegistry.search and NameResolver.resolve) every result of every tier satisfies
\* it; a location without hierarchy or without country is not returned under a
\* country filter.
C13_FiltersHold ==
    /\ IsLocSearch /\ Truthy(last_op.country) =>
          \A i \in 1..Len(result) :
             LET location == result[i].location
             IN /\ location.hierarchy # None
                /\ Truthy(location.hierarchy.country)
                /\ Lower(location.hierarchy.country) = Lower(last_op.country)
    /\ (IsNameSearch \/ IsResolve) /\ TruthyTag(last_op.name_type) =>
          \A i \in 1..Len(result) : result[i].entry.name_type = last_op.name_type

\* a search under a country filter that returned a location and left out a location
\* without hierarchy that the exact index holds under the query
C13_Witness ==
    /\ IsLocSearch
    /\ Truthy(last_op.country)
    /\ result # <<>>
    /\ \E id \in ScanLocName(last_op.query) :
          /\ DictGet(locations, id).hierarchy = None
          /\ \A i \in 1..Len(result) : ResultId(result[i]) # id

-----------------------------------------------------------------------------
(* C14: the match type of an exact-index hit *)

\* the query equals the location's modern name, case-insensitively
ByModernName(r) == Lower(r.location.modern_name) = Lower(last_op.query)

\* C14: in LocationRegistry.search every exact-index hit has confidence 1.0; its match
\* type is "exact" when the query equals the location's modern name
\* case-insensitively, and "historical" or "variant" only when the location is
\* reachable solely through a historical name or an alternate spelling.
C14_MatchType ==
    IsLocSearch =>
       \A i \in 1..Len(result) :
          ResultId(result[i]) \in ScanLocName(last_op.query) =>
             /\ REq(result[i].confidence, Rat(1, 1))
             /\ ByModernName(result[i]) => result[i].match_type = "exact"
             /\ result[i].match_type \in {"historical", "variant"} => ~ByModernName(result[i])

-----------------------------------------------------------------------------
(* matching/fuzzy.py: str methods over texts held as sequences of characters *)

\* the longest text the callers build, in pieces
MaxPieces == 3
\* the longest list of alternate spellings the callers pass
MaxAlt == 1

RECURSIVE LStrip(_)
\* str.lstrip()
LStrip(s) == IF s # <<>> /\ Head(s) = " " THEN LStrip(Tail(s)) ELSE s

RECURSIVE RStrip(_)
\* str.rstrip()
RStrip(s) == IF s # <<>> /\ s[Len(s)] = " " THEN RStrip(SubSeq(s, 1, Len(s) - 1)) ELSE s

\* str.strip()
Strip(s) == RStrip(LStrip(s))

RECURSIVE SplitFrom(_, _, _)
\* str.split(): the words of s after the words in acc and the word begun in cur
SplitFrom(s, cur, acc) ==
    IF s = <<>> THEN (IF cur = <<>> THEN acc ELSE Append(acc, cur))
    ELSE IF Head(s) = " "
         THEN SplitFrom(Tail(s), <<>>, IF cur = <<>> THEN acc ELSE Append(acc, cur))
         ELSE SplitFrom(Tail(s), Append(cur, Head(s)), acc)

Split(s) == SplitFrom(s, <<>>, <<>>)

RECURSIVE Join(_)
\* ' '.join(words)
Join(words) ==
    IF words = <<>> THEN <<>>
    ELSE IF Len(words) = 1 THEN words[1]
    ELSE words[1] \o <<" ">> \o Join(Tail(words))

RECURSIVE Remove(_, _)
\* str.replace(c, '')
Remove(s, c) ==
    IF s = <<>> THEN <<>>
    ELSE IF Head(s) = c THEN Remove(Tail(s), c)
    ELSE <<Head(s)>> \o Remove(Tail(s), c)

\* str.endswith(suffix)
EndsWith(s, suffix) ==
    Len(s) >= Len(suffix) /\ SubSeq(s, Len(s) - Len(suffix) + 1, Len(s)) = suffix

\* sub in s
Contains(sub, s) ==
    \E i \in 0..(Len(s) - Len(sub)) : SubSeq(s, i + 1, i + Len(sub)) = sub

-----------------------------------------------------------------------------
(* matching/fuzzy.py: normalize_name, normalize_location *)

S_jr  == <<" ", "j", "r">>
S_sr  == <<" ", "s", "r">>
S_ii  == <<" ", "i", "i">>
S_iii == <<" ", "i", "i", "i">>
S_iv  == <<" ", "i", "v">>
S_v   == <<" ", "v">>

\* the suffixes normalize_name looks for, in its order
NameSuffixes == <<S_jr, S_sr, S_ii, S_iii, S_iv, S_v>>

RECURSIVE StripSuffixes(_, _)
\* the loop over the suffixes: one pass, each suffix tried once
StripSuffixes(normalized, suffixes) ==
    IF suffixes = <<>> THEN normalized
    ELSE LET suffix == Head(suffixes)
         IN StripSuffixes(IF EndsWith(normalized, suffix)
                          THEN Strip(SubSeq(normalized, 1, Len(normalized) - Len(suffix)))
                          ELSE normalized,
                          Tail(suffixes))

normalize_name(name) ==
    IF ~Truthy(name) THEN <<>>
    ELSE StripSuffixes(Remove(Join(Split(Strip(Lower(name)))), "."), NameSuffixes)

normalize_location(place) ==
    IF ~Truthy(place) THEN NoneStr
    ELSE Remove(Join(Split(Strip(Lower(place)))), ",")

-----------------------------------------------------------------------------
(* rapidfuzz.fuzz, the backend fuzzy.py imports when it is installed *)

\* the characters of the texts, in code point order
Alphabet == <<" ", ",", ".", "A", "B", "C", "D", "N", "S", "U",
              "a", "b", "c", "d", "i", "j", "n", "r", "s", "u", "v">>

\* ord(c), up to the order it gives
Ord(c) == CHOOSE i \in 1..Len(Alphabet) : Alphabet[i] = c

RECURSIVE TextLt(_, _)
\* a < b for two str
TextLt(a, b) ==
    IF b = <<>> THEN FALSE
    ELSE IF a = <<>> THEN TRUE
    ELSE IF Head(a) = Head(b) THEN TextLt(Tail(a), Tail(b))
    ELSE Ord(Head(a)) < Ord(Head(b))

RECURSIVE Insert(_, _)
Insert(word, sorted) ==
    IF sorted = <<>> THEN <<word>>
    ELSE IF TextLt(Head(sorted), word) THEN <<Head(sorted)>> \o Insert(word, Tail(sorted))
    ELSE <<word>> \o sorted

RECURSIVE Sorted(_)
\* sorted(words)
Sorted(words) == IF words = <<>> THEN <<>> ELSE Insert(Head(words), Sorted(Tail(words)))

RECURSIVE LCS(_, _)
\* the length of the longest common subsequence
LCS(a, b) ==
    IF a = <<>> \/ b = <<>> THEN 0
    ELSE IF Head(a) = Head(b) THEN 1 + LCS(Tail(a), Tail(b))
    ELSE LET x == LCS(Tail(a), b)
             y == LCS(a, Tail(b))
         IN IF x >= y THEN x ELSE y

\* fuzz.ratio: the normalized Indel similarity, in percent
fuzz_ratio(s1, s2) ==
    IF Len(s1) + Len(s2) = 0 THEN Rat(100, 1)
    ELSE Rat(200 * LCS(s1, s2), Len(s1) + Len(s2))

\* fuzz.token_sort_ratio: fuzz.ratio of the two texts with their words sorted
fuzz_token_sort_ratio(s1, s2) == fuzz_ratio(Join(Sorted(Split(s1))), Join(Sorted(Split(s2))))

RMax(x, y) == IF RLe(y, x) THEN x ELSE y

\* the best of a non-empty set of scores
RMaxOf(scores) == CHOOSE x \in scores : \A y \in scores : RLe(y, x)

\* fuzz.partial_ratio for len(s1) <= len(s2): the best fuzz.ratio of s1 against the
\* prefixes of s2 shorter than s1, the windows of s2 as long as s1, and the suffixes
\* of s2 no longer than s1
PartialRatioImpl(s1, s2) ==
    LET len1 == Len(s1)
        len2 == Len(s2)
        windows == {SubSeq(s2, 1, i) : i \in 1..(len1 - 1)}
                   \cup {SubSeq(s2, i + 1, i + len1) : i \in 0..(len2 - len1 - 1)}
                   \cup {SubSeq(s2, i + 1, len2) : i \in (len2 - len1)..(len2 - 1)}
    IN RMaxOf({Rat(0, 1)} \cup {fuzz_ratio(s1, w) : w \in windows})

\* fuzz.partial_ratio: the shorter text against the longer, both ways round when
\* they are equally long
fuzz_partial_ratio(s1, s2) ==
    IF s1 = <<>> /\ s2 = <<>> THEN Rat(100, 1)
    ELSE LET shorter == IF Len(s1) <= Len(s2) THEN s1 ELSE s2
             longer == IF Len(s1) <= Len(s2) THEN s2 ELSE s1
             res == PartialRatioImpl(shorter, longer)
         IN IF ~REq(res, Rat(100, 1)) /\ Len(s1) = Len(s2)
            THEN RMax(res, PartialRatioImpl(longer, shorter))
            ELSE res

-----------------------------------------------------------------------------
(* matching/fuzzy.py: fuzzy_match_name, fuzzy_match_location *)

\* None where a list of texts is expected, and the truthiness of an optional list
NoneList == <<NoneStr>>
TruthyList(l) == l # NoneList /\ l # <<>>

RECURSIVE AlternatesLoop(_, _, _, _)
\* the loop over check_alternates: each alternate against both names
AlternatesLoop(alts, name1_norm, name2_norm, best_score) ==
    IF alts = <<>> THEN best_score
    ELSE LET alt_norm == normalize_name(Head(alts))
             first == RMax(best_score, fuzz_token_sort_ratio(name1_norm, alt_norm))
         IN AlternatesLoop(Tail(alts), name1_norm, name2_norm,
                           RMax(first, fuzz_token_sort_ratio(name2_norm, alt_norm)))

\* the branch taken when rapidfuzz is not installed
SubstringFallback(norm1, norm2) ==
    IF Contains(norm1, norm2) \/ Contains(norm2, norm1) THEN Rat(70, 1) ELSE Rat(0, 1)

\* fault: the names are not compared for equality before the provider is asked
fuzzy_match_name_no_exact(name1, name2, check_alternates, available) ==
    IF ~Truthy(name1) \/ ~Truthy(name2) THEN Rat(0, 1)
    ELSE LET name1_norm == normalize_name(name1)
             name2_norm == normalize_name(name2)
         IN IF available
            THEN LET best_score == fuzz_token_sort_ratio(name1_norm, name2_norm)
                 IN IF TruthyList(check_alternates)
                    THEN AlternatesLoop(check_alternates, name1_norm, name2_norm, best_score)
                    ELSE best_score
            ELSE SubstringFallback(name1_norm, name2_norm)

\* available is FUZZY_MATCHING_AVAILABLE; the threshold argument is not read
fuzzy_match_name(name1, name2, check_alternates, available) ==
    IF ~Truthy(name1) \/ ~Truthy(name2) THEN Rat(0, 1)
    ELSE LET name1_norm == normalize_name(name1)
             name2_norm == normalize_name(name2)
         IN IF name1_norm = name2_norm THEN Rat(100, 1)
            ELSE IF available
            THEN LET best_score == fuzz_token_sort_ratio(name1_norm, name2_norm)
                 IN IF TruthyList(check_alternates)
                    THEN AlternatesLoop(check_alternates, name1_norm, name2_norm, best_score)
                    ELSE best_score
            ELSE SubstringFallback(name1_norm, name2_norm)

fuzzy_match_location(location1, location2, available) ==
    IF ~Truthy(location1) \/ ~Truthy(location2) THEN Rat(0, 1)
    ELSE LET loc1_norm == normalize_location(location1)
             loc2_norm == normalize_location(location2)
         IN IF ~Truthy(loc1_norm) \/ ~Truthy(loc2_norm) THEN Rat(0, 1)
            ELSE IF loc1_norm = loc2_norm THEN Rat(100, 1)
            ELSE IF available THEN fuzz_partial_ratio(loc1_norm, loc2_norm)
            ELSE SubstringFallback(loc1_norm, loc2_norm)

-----------------------------------------------------------------------------
(* matching/fuzzy.py: compute_confidence_score *)

\* an Optional number is a sequence: <<>> for None, the number's components else
NoneNum == <<>>

\* the default weights
default_weights ==
    [name |-> Rat(2, 5), birth_year |-> Rat(1, 5), parents |-> Rat(1, 5),
     location |-> Rat(1, 5)]

\* a dict of weights is a record of the keys it holds; {} is the empty record
NoWeights == [none |-> TRUE]
TruthyWeights(weights) == DOMAIN weights # {} /\ "none" \notin DOMAIN weights

\* fault: the weights of the caller stand in for the defaults, not over them
WeightsUsed_replaces(weights) ==
    IF TruthyWeights(weights)
    THEN [k \in DOMAIN default_weights \cup DOMAIN weights |->
             IF k \in DOMAIN weights THEN weights[k] ELSE Rat(0, 1)]
    ELSE default_weights

\* default_weights.update(weights) when weights is given
WeightsUsed(weights) ==
    IF TruthyWeights(weights)
    THEN [k \in DOMAIN default_weights \cup DOMAIN weights |->
             IF k \in DOMAIN weights THEN weights[k] ELSE default_weights[k]]
    ELSE default_weights

\* the score of a known difference of birth years
YearScore(diff) ==
    IF diff = 0 THEN Rat(100, 1)
    ELSE IF diff <= 2 THEN Rat(90, 1)
    ELSE IF diff <= 5 THEN Rat(70, 1)
    ELSE Rat(0, 1)

\* round(x, 2): to the nearest hundredth, a tie to the even one
Round2(x) ==
    LET q == (100 * x[1]) \div x[2]
        r == (100 * x[1]) % x[2]
    IN Rat(IF 2 * r < x[2] THEN q
           ELSE IF 2 * r > x[2] THEN q + 1
           ELSE IF q % 2 = 0 THEN q ELSE q + 1, 100)

\* fault: the name factor is the distance from a full score, not the score
compute_confidence_score_by_distance(name_score, birth_year_diff, parent_match, location_score, weights) ==
    LET w == WeightsUsed(weights)
        by_name == RMul(RSub(Rat(100, 1), name_score), w.name)
        by_year == RMul(IF birth_year_diff # NoneNum THEN YearScore(birth_year_diff[1])
                        ELSE Rat(50, 1), w.birth_year)
        by_parents == RMul(IF parent_match THEN Rat(100, 1) ELSE Rat(50, 1), w.parents)
        by_location == RMul(IF location_score # NoneNum THEN location_score
                            ELSE Rat(50, 1), w.location)
    IN Round2(RAdd(RAdd(RAdd(by_name, by_year), by_parents), by_location))

compute_confidence_score(name_score, birth_year_diff, parent_match, location_score, weights) ==
    LET w == WeightsUsed(weights)
        by_name == RMul(name_score, w.name)
        by_year == RMul(IF birth_year_diff # NoneNum THEN YearScore(birth_year_diff[1])
                        ELSE Rat(50, 1), w.birth_year)
        by_parents == RMul(IF parent_match THEN Rat(100, 1) ELSE Rat(50, 1), w.parents)
        by_location == RMul(IF location_score # NoneNum THEN location_score
                            ELSE Rat(50, 1), w.location)
    IN Round2(RAdd(RAdd(RAdd(by_name, by_year), by_parents), by_location))

-----------------------------------------------------------------------------
(* matching/fuzzy.py: compute_match_breakdown *)

\* abs(birth_year1 - birth_year2)
YearDiff(birth_year1, birth_year2) ==
    IF birth_year1[1] >= birth_year2[1] THEN birth_year1[1] - birth_year2[1]
    ELSE birth_year2[1] - birth_year1[1]

\* a pair of parent names is (father, mother); None for the pair is NoneList
\* the parent score of two pairs of parent names that are both given
ParentScore(parent1_names, parent2_names, available) ==
    LET father1 == parent1_names[1]
        mother1 == parent1_names[2]
        father2 == parent2_names[1]
        mother2 == parent2_names[2]
        father_match == IF Truthy(father1) /\ Truthy(father2)
                        THEN fuzzy_match_name(father1, father2, NoneList, available)
                        ELSE Rat(0, 1)
        mother_match == IF Truthy(mother1) /\ Truthy(mother2)
                        THEN fuzzy_match_name(mother1, mother2, NoneList, available)
                        ELSE Rat(0, 1)
    IN IF RLt(Rat(0, 1), father_match) /\ RLt(Rat(0, 1), mother_match)
       THEN RDiv(RAdd(father_match, mother_match), Rat(2, 1))
       ELSE IF RLt(Rat(0, 1), father_match) THEN father_match
       ELSE IF RLt(Rat(0, 1), mother_match) THEN mother_match
       ELSE Rat(0, 1)

\* fault: a parent score of exactly 70 counts as a match
ParentMatch_at_least(parent_score) == parent_score # NoneNum /\ RLe(Rat(70, 1), parent_score)

\* the flag handed to compute_confidence_score: (parent_score or 0) > 70
ParentMatch(parent_score) == parent_score # NoneNum /\ RLt(Rat(70, 1), parent_score)

compute_match_breakdown(name1, name2, birth_year1, birth_year2, location1, location2, parent1_names, parent2_names, available) ==
    LET years == birth_year1 # NoneNum /\ birth_year2 # NoneNum
        name_score == fuzzy_match_name(name1, name2, NoneList, available)
        birth_year_score == IF years THEN YearScore(YearDiff(birth_year1, birth_year2))
                            ELSE NoneNum
        location_score == IF Truthy(location1) /\ Truthy(location2)
                          THEN fuzzy_match_location(location1, location2, available)
                          ELSE NoneNum
        parent_score == IF parent1_names # NoneList /\ parent2_names # NoneList
                        THEN ParentScore(parent1_names, parent2_names, available)
                        ELSE NoneNum
        birth_year_diff == IF years THEN <<YearDiff(birth_year1, birth_year2)>> ELSE NoneNum
    IN [name_score |-> name_score,
        birth_year_score |-> birth_year_score,
        location_score |-> location_score,
        parent_score |-> parent_score,
        overall |-> compute_confidence_score(name_score, birth_year_diff,
                                             ParentMatch(parent_score), location_score,
                                             NoWeights)]

-----------------------------------------------------------------------------
(* The callers of matching/fuzzy.py: the arguments are drawn first, then the
   functions are applied to them; a normalizer is also applied to its own result *)

S_a == <<"a">>
S_B == <<"B">>

\* the pieces the text to normalize is built of
Pieces == {S_a, S_B, <<" ">>, <<".">>, <<",">>, S_jr, S_sr, S_ii, S_iii, S_iv, S_v}

RECURSIVE Concat(_)
Concat(pieces) == IF pieces = <<>> THEN <<>> ELSE Head(pieces) \o Concat(Tail(pieces))

\* the texts handed to the normalizers: None and up to MaxPieces pieces
Texts ==
    {NoneStr} \cup {Concat(p) : p \in UNION {[1..n -> Pieces] : n \in 0..MaxPieces}}

\* the pairs of texts handed to fuzzy_match_name and fuzzy_match_location
PairTexts ==
    {NoneStr, <<>>, <<".">>, <<",">>, S_ab, S_Ab, S_abc, S_bc,
     <<"a", " ", "b">>, <<"b", " ", "a">>, S_ab \o S_jr, S_ab \o <<",">>}

\* the alternate spellings handed to fuzzy_match_name
AlternateTexts == {S_ab, S_bc, <<"b", " ", "a">>}
AlternateLists ==
    {NoneList} \cup UNION {[1..n -> AlternateTexts] : n \in 0..MaxAlt}

\* the scores, differences and weights handed to compute_confidence_score
Scores == {Rat(0, 1), Rat(333, 10), Rat(85, 1), Rat(95, 1), Rat(100, 1)}
YearDiffs == {NoneNum, <<0>>, <<2>>, <<5>>, <<6>>, <<-6>>}
\* the birth years, places and pairs of parent names handed to compute_match_breakdown
BirthYears1 == {NoneNum, <<1850>>}
BirthYears2 == {NoneNum, <<1850>>, <<1852>>, <<1844>>}
Places1 == {NoneStr, S_ab, <<",">>}
Places2 == {S_ab, S_abc}
Parents1 == {NoneList, <<S_ab, S_ab>>, <<S_ab, NoneStr>>}
Parents2 == {NoneList, <<S_ab, S_ab>>, <<S_abc, S_bc>>, <<NoneStr, S_ab>>}

WeightDicts ==
    {NoWeights, <<>>, [name |-> Rat(3, 5)], [names |-> Rat(1, 2)],
     [name |-> Rat(1, 4), birth_year |-> Rat(1, 4), parents |-> Rat(1, 4),
      location |-> Rat(1, 4)]}

InitMatch ==
    /\ registry = "matching"
    /\ locations = <<>>
    /\ entries = <<>>
    /\ name_index = <<>>
    /\ country_index = <<>>
    /\ code_index = <<>>
    /\ phonetic_index = <<>>
    /\ cognate_index = <<>>
    /\ result = None
    /\ committed = [id \in Ids |-> None]
    /\ deleted = {}
    /\ NoPersons
    /\ \/ \E text \in Texts : last_op = [op |-> "args", raised |-> "", of |-> "text", text |-> text]
       \/ \E name1, name2 \in PairTexts, alts \in AlternateLists, available \in BOOLEAN :
             last_op = [op |-> "args", raised |-> "", of |-> "pair", name1 |-> name1, name2 |-> name2,
                        check_alternates |-> alts, available |-> available]
       \/ \E name_score \in Scores, diff \in YearDiffs, parent_match \in BOOLEAN,
             location_score \in Scores \cup {NoneNum}, weights \in WeightDicts :
             last_op = [op |-> "args", raised |-> "", of |-> "score", name_score |-> name_score,
                        birth_year_diff |-> diff, parent_match |-> parent_match,
                        location_score |-> location_score, weights |-> weights]
       \/ \E name2 \in {S_ab, S_abc, NoneStr}, birth_year1 \in BirthYears1,
             birth_year2 \in BirthYears2, location1 \in Places1, location2 \in Places2,
             parent1_names \in Parents1, parent2_names \in Parents2, available \in BOOLEAN :
             last_op = [op |-> "args", raised |-> "", of |-> "persons", name1 |-> S_ab, name2 |-> name2,
                        birth_year1 |-> birth_year1, birth_year2 |-> birth_year2,
                        location1 |-> location1, location2 |-> location2,
                        parent1_names |-> parent1_names, parent2_names |-> parent2_names,
                        available |-> available]

\* the function op was applied to the arguments last_op holds and returned value:
\* no function of matching/fuzzy.py has a raise statement
Applied(op, value) ==
    /\ last_op' = [last_op EXCEPT !.op = op, !.raised = ""]
    /\ result' = value
    /\ UNCHANGED <<registry, StoreVars, HistoryVars, deleted, PersonVars>>

\* normalize_name(text), or normalize_name of what normalize_name returned
NormalizeName ==
    /\ last_op.of = "text"
    /\ \/ /\ last_op.op = "args"
          /\ Applied("normalize_name", normalize_name(last_op.text))
       \/ /\ last_op.op = "normalize_name"
          /\ last_op' = [last_op EXCEPT !.text = result]
          /\ result' = normalize_name(result)
          /\ UNCHANGED <<registry, StoreVars, HistoryVars, deleted, PersonVars>>

\* normalize_location(text), or normalize_location of what normalize_location returned
NormalizeLocation ==
    /\ last_op.of = "text"
    /\ \/ /\ last_op.op = "args"
          /\ Applied("normalize_location", normalize_location(last_op.text))
       \/ /\ last_op.op = "normalize_location"
          /\ last_op' = [last_op EXCEPT !.text = result]
          /\ result' = normalize_location(result)
          /\ UNCHANGED <<registry, StoreVars, HistoryVars, deleted, PersonVars>>

FuzzyMatchName ==
    /\ last_op.of = "pair"
    /\ last_op.op = "args"
    /\ Applied("fuzzy_match_name",
               fuzzy_match_name(last_op.name1, last_op.name2, last_op.check_alternates,
                                last_op.available))

FuzzyMatchLocation ==
    /\ last_op.of = "pair"
    /\ last_op.op = "args"
    /\ Applied("fuzzy_match_location",
               fuzzy_match_location(last_op.name1, last_op.name2, last_op.available))

ComputeConfidenceScore ==
    /\ last_op.of = "score"
    /\ last_op.op = "args"
    /\ Applied("compute_confidence_score",
               compute_confidence_score(last_op.name_score, last_op.birth_year_diff,
                                        last_op.parent_match, last_op.location_score,
                                        last_op.weights))

ComputeMatchBreakdown ==
    /\ last_op.of = "persons"
    /\ last_op.op = "args"
    /\ Applied("compute_match_breakdown",
               compute_match_breakdown(last_op.name1, last_op.name2, last_op.birth_year1,
                                       last_op.birth_year2, last_op.location1,
                                       last_op.location2, last_op.parent1_names,
                                       last_op.parent2_names, last_op.available))

NextMatch ==
    \/ NormalizeName
    \/ NormalizeLocation
    \/ FuzzyMatchName
    \/ FuzzyMatchLocation
    \/ ComputeConfidenceScore
    \/ ComputeMatchBreakdown

SpecMatch == InitMatch /\ [][NextMatch]_vars

-----------------------------------------------------------------------------
(* C15, C16: the normalizers applied to their own results *)

\* C15: normalize_name is idempotent: normalize_name(normalize_name(s)) ==
\* normalize_name(s) for every text s, also for texts with periods between spaces,
\* with several trailing suffixes, and with a suffix followed by a period.
C15_NormalizeNameIdempotent ==
    registry = "matching" /\ last_op.op = "normalize_name" =>
       normalize_name(result) = result

\* C16: normalize_location is idempotent: applied to its own result it gives that
\* result, also for texts of commas and whitespace only, whose result is the empty
\* text and not None, and for texts with a comma between spaces.
C16_NormalizeLocationIdempotent ==
    registry = "matching" /\ last_op.op = "normalize_location" =>
       normalize_location(result) = result

-----------------------------------------------------------------------------
(* C17..C19: the scores of fuzzy_match_name and fuzzy_match_location *)

IsNameMatch == registry = "matching" /\ last_op.op = "fuzzy_match_name"
IsLocationMatch == registry = "matching" /\ last_op.op = "fuzzy_match_location"

\* the normalized form of a text handed to the function applied last
NormOf(text) == IF IsNameMatch THEN normalize_name(text) ELSE normalize_location(text)

\* the function applied last, on two other texts
MatchOf(text1, text2) ==
    IF IsNameMatch
    THEN fuzzy_match_name(text1, text2, last_op.check_alternates, last_op.available)
    ELSE fuzzy_match_location(text1, text2, last_op.available)

C18_FallbackScore ==
    (IsNameMatch \/ IsLocationMatch) /\ ~last_op.available =>
       LET norm1 == NormOf(last_op.name1)
           norm2 == NormOf(last_op.name2)
       IN REq(result,
              IF ~Truthy(last_op.name1) \/ ~Truthy(last_op.name2) THEN Rat(0, 1)
              ELSE IF norm1 = norm2 THEN Rat(100, 1)
              ELSE IF Contains(norm1, norm2) \/ Contains(norm2, norm1) THEN Rat(70, 1)
              ELSE Rat(0, 1))

\* the score the active provider gives two normalized names
Similarity(norm1, norm2) ==
    IF norm1 = norm2 THEN Rat(100, 1)
    ELSE IF last_op.available THEN fuzz_token_sort_ratio(norm1, norm2)
    ELSE SubstringFallback(norm1, norm2)

\* C19: fuzzy_match_name(name1, name2, check_alternates=A) on two names returns the
\* best of the score of name1 against name2 and the scores of each name against each
\* alternate of A, under the provider in use: a name equal to a listed alternate
\* scores 100.
C19_BestOfAlternates ==
    IsNameMatch /\ Truthy(last_op.name1) /\ Truthy(last_op.name2) =>
       LET norm1 == normalize_name(last_op.name1)
           norm2 == normalize_name(last_op.name2)
           alts == IF TruthyList(last_op.check_alternates)
                   THEN last_op.check_alternates ELSE <<>>
           scores == {Similarity(norm1, norm2)}
                     \cup {Similarity(norm1, normalize_name(alts[i])) : i \in 1..Len(alts)}
                     \cup {Similarity(norm2, normalize_name(alts[i])) : i \in 1..Len(alts)}
       IN /\ \A s \in scores : RLe(s, result)
          /\ \E s \in scores : REq(s, result)

-----------------------------------------------------------------------------
(* C20: the range of compute_confidence_score *)

\* C20: compute_confidence_score returns a value in [0, 100] for every name score
\* and location score in [0, 100], every difference of years or none, either
\* parent flag, and the default weights or weights the caller passed.
C20_ConfidenceBounded ==
    registry = "matching" /\ last_op.op = "compute_confidence_score" =>
       RLe(Rat(0, 1), result) /\ RLe(result, Rat(100, 1))

-----------------------------------------------------------------------------
(* C21: compute_confidence_score and the name score *)

IsConfidence == registry = "matching" /\ last_op.op = "compute_confidence_score"

\* the call made last, with another name score
WithNameScore(name_score) ==
    compute_confidence_score(name_score, last_op.birth_year_diff, last_op.parent_match,
                             last_op.location_score, last_op.weights)

-----------------------------------------------------------------------------
(* C22, C23: the factors of compute_confidence_score *)

IsBreakdown == registry = "matching" /\ last_op.op = "compute_match_breakdown"

\* the call made last, with another difference of years
WithYearDiff(diff) ==
    compute_confidence_score(last_op.name_score, diff, last_op.parent_match,
                             last_op.location_score, last_op.weights)

\* the date-proximity table: bands on the absolute difference, 50 when unknown
DateFactor(diff) ==
    IF diff = NoneNum THEN Rat(50, 1)
    ELSE LET d == IF diff[1] >= 0 THEN diff[1] ELSE 0 - diff[1]
         IN IF d = 0 THEN Rat(100, 1)
            ELSE IF d <= 2 THEN Rat(90, 1)
            ELSE IF d <= 5 THEN Rat(70, 1)
            ELSE Rat(0, 1)

RelationshipFactor(flag) == IF flag THEN Rat(100, 1) ELSE Rat(50, 1)
LocationFactor(score) == IF score = NoneNum THEN Rat(50, 1) ELSE score

\* the weighted sum of four factors, rounded to 2 decimals
WeightedSum(name, date, relationship, location, w) ==
    Round2(RAdd(RAdd(RAdd(RMul(name, w.name), RMul(date, w.birth_year)),
                     RMul(relationship, w.parents)),
                RMul(location, w.location)))

\* two optional numbers are both None or equal
SameOpt(x, y) == IF x = NoneNum \/ y = NoneNum THEN x = y ELSE REq(x, y)

\* C22: the date factor follows the bands on the absolute difference in years (0
\* gives 100, at most 2 gives 90, at most 5 gives 70, more gives 0) and is the
\* neutral 50, still weighted, when a date is unknown; compute_confidence_score and
\* compute_match_breakdown apply the same table: with name_score 100 a difference of
\* 0 scores strictly higher than a difference of 6, and a difference of d scores the
\* same as a difference of -d.
C22_DateBands ==
    /\ IsConfidence =>
          /\ REq(result,
                 WeightedSum(last_op.name_score, DateFactor(last_op.birth_year_diff),
                             RelationshipFactor(last_op.parent_match),
                             LocationFactor(last_op.location_score),
                             WeightsUsed(last_op.weights)))
          /\ last_op.birth_year_diff # NoneNum =>
                REq(result, WithYearDiff(<<0 - last_op.birth_year_diff[1]>>))
          /\ REq(last_op.name_score, Rat(100, 1)) /\ last_op.birth_year_diff = <<0>> =>
                RLt(WithYearDiff(<<6>>), result)
    /\ IsBreakdown =>
          SameOpt(result.birth_year_score,
                  IF last_op.birth_year1 = NoneNum \/ last_op.birth_year2 = NoneNum
                  THEN NoneNum
                  ELSE DateFactor(<<last_op.birth_year1[1] - last_op.birth_year2[1]>>))

\* the weights in force: 40% name, 20% date, 20% relationship, 20% location, each
\* replaced by the entry of that name in the weights of the caller
WeightsInForce(weights) ==
    LET given == IF TruthyWeights(weights) THEN DOMAIN weights ELSE {}
    IN [name |-> IF "name" \in given THEN weights.name ELSE Rat(2, 5),
        birth_year |-> IF "birth_year" \in given THEN weights.birth_year ELSE Rat(1, 5),
        parents |-> IF "parents" \in given THEN weights.parents ELSE Rat(1, 5),
        location |-> IF "location" \in given THEN weights.location ELSE Rat(1, 5)]

-----------------------------------------------------------------------------
(* C24: weights under a key compute_confidence_score does not know *)

WeightKeys == {"name", "birth_year", "parents", "location"}

\* C24: compute_confidence_score, handed weights with a key outside name,
\* birth_year, parents and location, ends in an InvalidConfiguration error and
\* returns no score: an unknown key is not accepted in silence.
C24_UnknownWeightKey ==
    /\ IsConfidence
    /\ TruthyWeights(last_op.weights)
    /\ ~(DOMAIN last_op.weights \subseteq WeightKeys)
    => last_op.raised = "InvalidConfiguration"

-----------------------------------------------------------------------------
(* C25: compute_match_breakdown and compute_confidence_score *)

\* the overall score of the breakdown returned last, were the relationship flag flag
OverallWith(flag) ==
    compute_confidence_score(
        result.name_score,
        IF last_op.birth_year1 = NoneNum \/ last_op.birth_year2 = NoneNum THEN NoneNum
        ELSE <<YearDiff(last_op.birth_year1, last_op.birth_year2)>>,
        flag, result.location_score, NoWeights)

-----------------------------------------------------------------------------
(* C26: search_by_coordinates *)

IsNear == IsLoc /\ last_op.op = "search_by_coordinates"

\* the distance of a location with coordinates to the point of the call made last
DistanceOf(location) ==
    Haversine(last_op.latitude, last_op.longitude, location.geocode.latitude,
              location.geocode.longitude)

\* the ids of the collection with coordinates no farther than the radius
NearIds ==
    {id \in DictKeys(locations) :
        LET location == DictGet(locations, id)
        IN location.geocode # None /\ RLe(DistanceOf(location), last_op.radius_km)}

\* C26: search_by_coordinates(lat, lon, radius_km) returns exactly the records of
\* the collection that have coordinates and lie at most radius_km from (lat, lon),
\* each once with its distance, nearest first; a record without coordinates is not
\* returned and raises nothing, a record at exactly the radius is returned.
C26_WithinRadiusByDistance ==
    IsNear =>
       /\ last_op.raised = ""
       /\ {ResultId(result[i]) : i \in 1..Len(result)} = NearIds
       /\ \A i, j \in 1..Len(result) : ResultId(result[i]) = ResultId(result[j]) => i = j
       /\ \A i \in 1..Len(result) :
             /\ result[i].location = DictGet(locations, ResultId(result[i]))
             /\ REq(result[i].distance, DistanceOf(result[i].location))
       /\ \A i, j \in 1..Len(result) :
             i < j => RLe(result[i].distance, result[j].distance)

\* two records returned nearest first against their order in the collection, the
\* farther one at exactly the radius
C26_Witness ==
    /\ IsNear
    /\ Len(result) = 2
    /\ RLt(result[1].distance, result[2].distance)
    /\ REq(result[2].distance, last_op.radius_km)
    /\ locations[1].key = ResultId(result[2])

-----------------------------------------------------------------------------
(* C27: a reader between the statements of a writer *)

\* the writer is inside create, update or delete
WriterInside == last_op.pc # "idle"

\* the indexes are those _rebuild_indexes builds from the collection
IndexesAgree ==
    LET ix == LocRebuildIndexes(locations)
    IN /\ name_index = ix.name_index
       /\ country_index = ix.country_index
       /\ code_index = ix.code_index

\* the ids of the records the reader got
GotIds == {result.value[i].location_id : i \in 1..Len(result.value)}

\* what the reader got is not what the collection holds under its query
ReaderMisled ==
    /\ result # None
    /\ \/ result.raised # ""
       \/ result.op = "search_exact" /\ GotIds # ScanLocName(result.query)
       \/ result.op = "find_by_country" /\ GotIds # ScanLocCountry(result.query)
       \/ /\ result.op = "search"
          /\ \E id \in ScanLocName(result.query) :
                ~\E i \in 1..Len(result.value) :
                    /\ result.value[i].location.location_id = id
                    /\ REq(result.value[i].confidence, Rat(1, 1))

\* C27: the registry takes no lock and its mutate-then-rebuild step is not atomic:
\* search_exact, search and find_by_country run between the statements of create,
\* update and delete; outside such a call the indexes agree with the collection, and
\* a reader is misled (an index cleared, partly rebuilt, or naming an id no longer in
\* the collection) only by a call that fell inside one.
C27_MisledOnlyInsideAWrite ==
    /\ [][result' # result /\ ~WriterInside => ~ReaderMisled']_vars
    /\ [](~WriterInside => IndexesAgree)

\* search_exact raised KeyError: the name index still named an id that delete had
\* taken out of the collection
C27_Witness ==
    /\ result # None
    /\ result.op = "search_exact"
    /\ result.raised = "KeyError"
    /\ last_op.op = "delete"
    /\ last_op.pc = "mutated"
    /\ ~IndexesAgree

-----------------------------------------------------------------------------
(* C28: the records a caller holds *)

\* C28: the records read, search_exact and the other queries hand out, and the
\* objects passed to create and update, are isolated from the registry: when a
\* caller assigns to a field of one without going through update, read and the name
\* lookup return afterwards what they returned before.
C28_HeldRecordsIsolated ==
    [][last_op'.op = "mutate" =>
          /\ \A id \in Ids : Read(id)' = Read(id)
          /\ \A q \in Queries : ByName(q)' = ByName(q)]_vars

-----------------------------------------------------------------------------
(* C29, C30: changing an entry in place *)

\* the call just made is one the registry has to refuse: a name id that is not in
\* the registry, or a merge strategy other than "accumulate" and "replace"
MustFail ==
    /\ last_op'.op \in {"merge_geographic_usage", "update_fields"}
    /\ \/ ~DictHas(entries, last_op'.id)
       \/ /\ last_op'.op = "merge_geographic_usage"
          /\ last_op'.merge_strategy \notin {"accumulate", "replace"}

\* C29: merge_geographic_usage with an unknown name id or a merge strategy other
\* than "accumulate" and "replace", and update_fields with an unknown name id, fail
\* with an error and leave every entry (its geographic_usage and its date_modified
\* with it) and every index as they were.
C29_FailedChangeNothing ==
    [][MustFail =>
          /\ last_op'.raised = "ValueError"
          /\ entries' = entries
          /\ name_index' = name_index
          /\ phonetic_index' = phonetic_index
          /\ cognate_index' = cognate_index]_vars

\* a merge with an unknown strategy into an entry that is there has been refused
C29_Witness ==
    /\ last_op.op = "merge_geographic_usage"
    /\ last_op.merge_strategy = "merge"
    /\ DictHas(entries, last_op.id)
    /\ last_op.raised = "ValueError"

\* C30: after any sequence of create, update, delete, load, update_fields and
\* merge_geographic_usage, every key k of the collection maps to a record whose own
\* identifier is k, so that read(k).id = k.
C30_KeyIsOwnId ==
    \A id \in Ids : Read(id) # None => RecId(Read(id)) = id

-----------------------------------------------------------------------------
(* C31: one record, one place in an index lookup's result *)

\* C31: search_exact(name), search_cognates(name) and find_by_country(country) return
\* each matching record at most once, also when the query equals more than one
\* indexed name of the same record (its primary name and a historical name or
\* alternate form that differ only in letter case).
C31_LookupReturnsEachOnce ==
    last_op.op \in {"search_exact", "search_cognates", "find_by_country"}
    /\ last_op.raised = "" =>
       \A i, j \in 1..Len(result) : RecId(result[i]) = RecId(result[j]) => i = j

-----------------------------------------------------------------------------
(* C32: the keys of the exact lookup *)

\* the normalized key of the specification: lowercase, punctuation stripped,
\* whitespace collapsed
NormalKey(text) == Join(Split(Remove(Remove(Lower(text), "."), ",")))

\* the primary name of a record
PrimaryName(rec) == IF IsLoc THEN rec.modern_name ELSE rec.name

\* C32: search_exact finds a record whenever its primary name and the query have the
\* same normalized form (lowercase, whitespace collapsed, punctuation stripped):
\* two strings differing only in letter case, in runs of whitespace or in
\* punctuation hit the same index entry.
C32_ExactOnNormalizedKeys ==
    last_op.op = "search_exact" /\ last_op.raised = "" =>
       \A id \in Ids :
          Read(id) # None /\ NormalKey(PrimaryName(Read(id))) = NormalKey(last_op.query)
             => id \in IdsOf(result)

-----------------------------------------------------------------------------
(* C33: the order of NameRegistry.search *)

\* C33: in the list NameRegistry.search returns the match confidence is
\* non-increasing: an exact hit (1.0) is never placed after a cognate hit (0.8),
\* whatever name-validity confidence the entries carry.
C33_SearchByMatchConfidence ==
    IsNameSearch =>
       \A i, j \in 1..Len(result) :
          i < j => RLe(result[j].confidence, result[i].confidence)

-----------------------------------------------------------------------------
(* C34: search without historical names *)

\* of the location's names only a historical one equals the query
ByHistoricalOnly(location) ==
    /\ Lower(location.modern_name) # Lower(last_op.query)
    /\ \A i \in 1..Len(location.alternate_spellings) :
          Lower(location.alternate_spellings[i]) # Lower(last_op.query)
    /\ \E i \in 1..Len(location.historical_names) :
          Lower(location.historical_names[i]) = Lower(last_op.query)

\* C34: LocationRegistry.search(query, include_historical=False) leaves historical
\* names out: a location whose only name equal to the query is a historical name is
\* not returned as an exact hit, and with include_historical=True it is returned with
\* match type "historical".
C34_HistoricalOnlyWhenAsked ==
    IsLocSearch =>
       \A i \in 1..Len(result) :
          ByHistoricalOnly(result[i].location) =>
             IF last_op.include_historical
             THEN result[i].match_type = "historical"
             ELSE ~IsExactHit(result[i])

-----------------------------------------------------------------------------
(* C35: accumulating geographic usage *)

\* the usages of the entry the last call named
UsageOf(ents, id) == DictGet(ents, id).geographic_usage

\* no two usages of the list have the same key
DistinctKeys(usage) ==
    \A i, j \in 1..Len(usage) : UsageKey(usage[i]) = UsageKey(usage[j]) => i = j

\* a successful merge with the strategy "accumulate"
IsAccumulate ==
    /\ last_op.op = "merge_geographic_usage"
    /\ last_op.merge_strategy = "accumulate"
    /\ last_op.raised = ""

\* the collection after the merge that ran last is run once more
MergedAgain ==
    NameRegistry_merge_geographic_usage(entries, last_op.id, last_op.usage_entries,
                                        "accumulate").entries

\* C35: after merge_geographic_usage(id, entries, "accumulate") on an entry whose
\* usages have pairwise distinct keys, the usages still have pairwise distinct keys,
\* every earlier usage is kept unchanged, and merging the same entries a second time
\* changes nothing; also when the supplied list holds two entries with the same key.
C35_AccumulateKeepsKeysDistinct ==
    [][IsAccumulate' /\ DistinctKeys(UsageOf(entries, last_op'.id)) =>
          LET before == UsageOf(entries, last_op'.id)
              after == UsageOf(entries', last_op'.id)
          IN /\ DistinctKeys(after)
             /\ Len(after) >= Len(before)
             /\ SubSeq(after, 1, Len(before)) = before
             /\ MergedAgain' = entries']_vars

-----------------------------------------------------------------------------
(* persons/crud.py: PersonCRUD over directories of one YAML file per person *)

(***************************************************************************)
(* A YAML value is a record: a string is [str |-> s], an integer is        *)
(* [int |-> n], None is [none |-> TRUE] and a mapping is the record of its *)
(* keys.  A directory is a function from file names to the data load_yaml  *)
(* gives for the file; for strings, integers and mappings of them that is  *)
(* the data dump_yaml was handed.  The name of a person file is the triple *)
(* <<person_id, safe_given, safe_surname>> of the parts of                 *)
(* f"{person_id}_{safe_given}_{safe_surname}.yaml", the name of a backup   *)
(* is <<file name, timestamp>>.                                            *)
(***************************************************************************)

\* create is called while the persons directory holds fewer than MaxPersons files
MaxPersons == 3
\* a caller who updates and deletes has stored at most MaxStored files and calls
\* update while the backup directory holds at most MaxBackups files
MaxStored == 2
MaxBackups == 1
\* the clock shows the seconds 0..MaxClock
MaxClock == 1

YamlStr(s) == [str |-> s]
YamlInt(n) == [int |-> n]
IsMapping(v) == DOMAIN v \cap {"str", "int", "none"} = {}

\* a fraction in lowest terms
RECURSIVE GCD(_, _)
GCD(a, b) == IF b = 0 THEN a ELSE GCD(b, a % b)
Reduce(x) == LET g == GCD(x[1], x[2]) IN IF g = 0 THEN x ELSE Rat(x[1] \div g, x[2] \div g)

\* validation.CURRENT_SCHEMA_VERSION
CURRENT_SCHEMA_VERSION == "1.0.0"

\* validate_person_data, the issues of severity CRITICAL
CriticalIssues(data) ==
    IF DOMAIN data = {} THEN {"Empty data"}
    ELSE (IF "person_id" \notin DOMAIN data THEN {"person_id"} ELSE {})
         \cup (IF "name" \notin DOMAIN data THEN {"name"}
               ELSE IF IsMapping(data.name) /\ "full_name" \notin DOMAIN data.name
               THEN {"name.full_name"} ELSE {})

\* sanitize_filename: the invalid characters become '_', whitespace runs become '_'
InvalidChars == {"<", ">", ":", "\"", "/", "\\", "|", "?", "*"}
RECURSIVE JoinWith(_, _)
JoinWith(words, sep) ==
    IF words = <<>> THEN <<>>
    ELSE IF Len(words) = 1 THEN words[1]
    ELSE words[1] \o <<sep>> \o JoinWith(Tail(words), sep)
sanitize_filename(name) ==
    JoinWith(Split([i \in 1..Len(name) |-> IF name[i] \in InvalidChars THEN "_" ELSE name[i]]),
             "_")

\* f"{person_id}_{safe_given}_{safe_surname}.yaml"
FileName(person_id, given_names, surname) ==
    <<person_id, sanitize_filename(given_names), sanitize_filename(surname)>>

\* persons_dir.glob(f"{person_id}_*.yaml")
Glob(dir, person_id) == {file \in DOMAIN dir : file[1] = person_id}

\* a directory with one file written, and with one file gone
Written(dir, file, data) == (file :> data) @@ dir
Gone(dir, file) ==
    IF DOMAIN dir \subseteq {file} THEN <<>>
    ELSE [f \in DOMAIN dir \ {file} |-> dir[f]]

\* create: the person_data it builds from its arguments
PersonData(person_id, given_names, surname, kwargs) ==
    LET base == [schema_version |-> YamlStr(CURRENT_SCHEMA_VERSION),
                 person_id |-> YamlStr(person_id),
                 name |-> [full_name |-> YamlStr(given_names \o <<" ">> \o surname),
                           given_names |-> YamlStr(given_names),
                           surname |-> YamlStr(surname)]]
        gender == IF "gender" \in DOMAIN kwargs
                  THEN ("gender" :> YamlStr(kwargs.gender)) ELSE <<>>
        birth == IF "birth_year" \in DOMAIN kwargs
                 THEN ("vital_events" :> [birth |-> [year |-> YamlInt(kwargs.birth_year)]])
                 ELSE <<>>
    IN birth @@ gender @@ base

\* str.lower() of the gender words
LowerWord(w) ==
    CASE w = "Male" -> "male"
      [] w = "Female" -> "female"
      [] w = "Unknown" -> "unknown"
      [] OTHER -> w

\* data.get('name', {}).get(key, ''): the text, '' when the key is missing
NameField(data, key) ==
    IF "name" \in DOMAIN data /\ key \in DOMAIN data.name THEN data.name[key].str ELSE <<>>

\* data.get('vital_events', {}).get('birth', {}).get('year')
BirthYearOf(data) ==
    IF /\ "vital_events" \in DOMAIN data
       /\ "birth" \in DOMAIN data.vital_events
       /\ "year" \in DOMAIN data.vital_events.birth
    THEN data.vital_events.birth.year ELSE None

\* search: the surname criterion; NoneNum stands for "continue"
SurnameStage(data, criteria, use_fuzzy, threshold, confidence) ==
    IF "surname" \notin DOMAIN criteria THEN confidence
    ELSE LET surname == NameField(data, "surname")
             score == fuzzy_match_name(criteria.surname, surname, <<>>, TRUE)
         IN IF surname = <<>> THEN NoneNum
            ELSE IF use_fuzzy
            THEN IF RLt(score, threshold) THEN NoneNum
                 ELSE Reduce(RAdd(RMul(confidence, Rat(3, 5)), RMul(score, Rat(2, 5))))
            ELSE IF ~Contains(Lower(criteria.surname), Lower(surname)) THEN NoneNum
                 ELSE confidence

\* search: the given names criterion
GivenStage(data, criteria, use_fuzzy, threshold, confidence) ==
    IF confidence = NoneNum \/ "given_names" \notin DOMAIN criteria THEN confidence
    ELSE LET given == NameField(data, "given_names")
             score == fuzzy_match_name(criteria.given_names, given, <<>>, TRUE)
         IN IF given = <<>> THEN NoneNum
            ELSE IF use_fuzzy
            THEN IF RLt(score, threshold) THEN NoneNum
                 ELSE Reduce(RAdd(RMul(confidence, Rat(7, 10)), RMul(score, Rat(3, 10))))
            ELSE IF ~Contains(Lower(criteria.given_names), Lower(given)) THEN NoneNum
                 ELSE confidence

\* search: the birth year criterion, with its tolerance
BirthYearStage(data, criteria, confidence) ==
    IF confidence = NoneNum \/ "birth_year" \notin DOMAIN criteria THEN confidence
    ELSE LET birth_year == BirthYearOf(data)
             year_diff == IF birth_year.int >= criteria.birth_year
                          THEN birth_year.int - criteria.birth_year
                          ELSE criteria.birth_year - birth_year.int
         IN IF birth_year = None \/ birth_year.int = 0
            THEN Reduce(RMul(confidence, Rat(9, 10)))
            ELSE IF year_diff = 0
            THEN RMin(Rat(100, 1), Reduce(RMul(confidence, Rat(11, 10))))
            ELSE IF year_diff <= 2 THEN Reduce(RMul(confidence, Rat(19, 20)))
            ELSE IF year_diff <= 5 THEN Reduce(RMul(confidence, Rat(17, 20)))
            ELSE NoneNum

\* search: the gender criterion
GenderStage(data, criteria, confidence) ==
    IF confidence = NoneNum \/ "gender" \notin DOMAIN criteria THEN confidence
    ELSE LET gender == IF "gender" \in DOMAIN data THEN LowerWord(data.gender.str) ELSE ""
         IN IF gender # "" /\ gender # "unknown"
            THEN IF LowerWord(criteria.gender) = gender
                 THEN RMin(Rat(100, 1), Reduce(RMul(confidence, Rat(21, 20))))
                 ELSE NoneNum
            ELSE Reduce(RMul(confidence, Rat(19, 20)))

\* search: the confidence of one file, NoneNum when the file is passed over
PersonConfidence(data, criteria, use_fuzzy, threshold) ==
    LET initial == Rat(100, 1)
        by_surname == SurnameStage(data, criteria, use_fuzzy, threshold, initial)
        by_given == GivenStage(data, criteria, use_fuzzy, threshold, by_surname)
        by_year == BirthYearStage(data, criteria, by_given)
        confidence == GenderStage(data, criteria, by_year)
    IN IF confidence = NoneNum \/ RLt(confidence, threshold) THEN NoneNum
       ELSE Round2(confidence)

\* PersonCRUD.search: the matches, each file with its data and its confidence; the
\* list search returns holds them by descending confidence, equal confidences in
\* the order glob listed the files
PersonCRUD_search(dir, criteria, fuzzy, threshold, rapidfuzz) ==
    { m \in { [file |-> file, data |-> dir[file],
                confidence |-> PersonConfidence(dir[file], criteria, fuzzy /\ rapidfuzz,
                                                threshold)] : file \in DOMAIN dir }
        : m.confidence # NoneNum }

\* _find_duplicate: the criteria it searches with
DuplicateCriteria(given_names, surname, kwargs) ==
    LET birth_year == IF "birth_year" \in DOMAIN kwargs /\ kwargs.birth_year # 0
                      THEN ("birth_year" :> kwargs.birth_year) ELSE <<>>
        gender == IF "gender" \in DOMAIN kwargs /\ kwargs.gender # ""
                  THEN ("gender" :> kwargs.gender) ELSE <<>>
    IN gender @@ birth_year @@ [surname |-> surname, given_names |-> given_names]

\* results[0] of a list sorted by descending confidence: a match no other exceeds
First(results) == {m \in results : \A o \in results : RLe(o.confidence, m.confidence)}

\* _find_duplicate: what results[0] can be
PersonCRUD_find_duplicate(dir, given_names, surname, kwargs, rapidfuzz) ==
    First(PersonCRUD_search(dir, DuplicateCriteria(given_names, surname, kwargs),
                            TRUE, Rat(80, 1), rapidfuzz))

\* create: confidence >= 95
ReturnsExisting(confidence) == RLe(Rat(95, 1), confidence)

RECURSIVE GetNested(_, _)
\* _get_nested_value: None on KeyError and TypeError
GetNested(current, keys) ==
    IF keys = <<>> THEN current
    ELSE IF IsMapping(current) /\ Head(keys) \in DOMAIN current
    THEN GetNested(current[Head(keys)], Tail(keys))
    ELSE None

RECURSIVE SetNested(_, _, _)
\* _set_nested_value, for a path that leads through mappings and missing keys
SetNested(current, keys, value) ==
    IF Len(keys) = 1 THEN (Head(keys) :> value) @@ current
    ELSE LET child == IF Head(keys) \in DOMAIN current THEN current[Head(keys)] ELSE <<>>
         IN (Head(keys) :> SetNested(child, Tail(keys), value)) @@ current

\* update: some requested value differs from the current one
ChangesNeeded(data, updates) ==
    \E i \in 1..Len(updates) : GetNested(data, updates[i].key) # updates[i].val

RECURSIVE ApplyUpdates(_, _)
\* update: the loop of _set_nested_value over updates.items()
ApplyUpdates(data, updates) ==
    IF updates = <<>> THEN data
    ELSE ApplyUpdates(SetNested(data, Head(updates).key, Head(updates).val), Tail(updates))

\* fault: the updated data is written before it is validated
UpdateWrites_unvalidated(data) == TRUE

\* update: the data is written when validation finds no critical issue
UpdateWrites(data) == CriticalIssues(data) = {}

\* create_backup: a copy under the file's name and the timestamp
create_backup(dir, file, backups, timestamp) == Written(backups, <<file, timestamp>>, dir[file])

\* the arguments callers pass to PersonCRUD
GivenNames == {S_ab, S_abc}
Surnames == {S_bc}
PersonIds == {1, 2}
Kwargs == { [person_id |-> 1],
            [gender |-> "Unknown"],
            [birth_year |-> 1850, gender |-> "Male"],
            [person_id |-> 1, birth_year |-> 1850] }
UpdatePool ==
    { <<[key |-> <<"gender">>, val |-> YamlStr("Male")]>>,
      <<[key |-> <<"vital_events", "birth", "year">>, val |-> YamlInt(1853)]>>,
      <<[key |-> <<"name">>, val |-> [given_names |-> YamlStr(S_ab)]]>>,
      <<[key |-> <<"vital_events">>, val |-> [birth |-> [year |-> YamlInt(1850)]]],
        [key |-> <<"vital_events", "birth", "place">>, val |-> YamlStr(S_ab)]>> }

\* PersonCRUD(persons_dir, backup_dir, archive_dir) on empty directories, in a build
\* with or without rapidfuzz
InitPersons ==
    /\ registry = "PersonCRUD"
    /\ locations = <<>>
    /\ entries = <<>>
    /\ name_index = <<>>
    /\ country_index = <<>>
    /\ code_index = <<>>
    /\ phonetic_index = <<>>
    /\ cognate_index = <<>>
    /\ last_op = [op |-> "init", pc |-> "done"]
    /\ result = None
    /\ committed = [id \in Ids |-> None]
    /\ deleted = {}
    /\ persons_dir = <<>>
    /\ backup_dir = <<>>
    /\ archive_dir = <<>>
    /\ clock = 0
    /\ FUZZY_MATCHING_AVAILABLE \in BOOLEAN

\* what a call to PersonCRUD leaves alone
PersonFrame ==
    UNCHANGED <<registry, StoreVars, HistoryVars, deleted, clock, FUZZY_MATCHING_AVAILABLE>>

\* no call is under way
PersonIdle == last_op.pc = "done"

\* a second passes
Tick ==
    /\ clock < MaxClock
    /\ clock' = clock + 1
    /\ UNCHANGED <<registry, StoreVars, HistoryVars, deleted, FUZZY_MATCHING_AVAILABLE,
                   persons_dir, backup_dir, archive_dir, last_op, result>>

\* create, from the matches _find_duplicate can return (none without the check)
PersonCRUD_create(given_names, surname, check_duplicates, kwargs, generated, found) ==
    LET person_id == IF "person_id" \in DOMAIN kwargs THEN kwargs.person_id ELSE generated
        person_data == PersonData(person_id, given_names, surname, kwargs)
        file_path == FileName(person_id, given_names, surname)
        call == [op |-> "create", pc |-> "done", given_names |-> given_names,
                 surname |-> surname, kwargs |-> kwargs,
                 check_duplicates |-> check_duplicates,
                 id |-> person_id, raised |-> ""]
    IN \/ \E existing \in found :
             /\ ReturnsExisting(existing.confidence)
             /\ last_op' = call
             /\ result' = existing.data
             /\ UNCHANGED persons_dir
       \/ /\ \A existing \in found : ~ReturnsExisting(existing.confidence)
          /\ IF CriticalIssues(person_data) # {}
             THEN /\ last_op' = [call EXCEPT !.raised = "ValueError"]
                  /\ result' = None
                  /\ UNCHANGED persons_dir
             ELSE IF file_path \in DOMAIN persons_dir
             THEN /\ last_op' = [call EXCEPT !.raised = "FileExistsError"]
                  /\ result' = None
                  /\ UNCHANGED persons_dir
             ELSE /\ last_op' = call
                  /\ result' = person_data
                  /\ persons_dir' = Written(persons_dir, file_path, person_data)

\* PersonCRUD.create; generate_person_id draws the id when none is passed
PersonCreate ==
    /\ PersonIdle
    /\ \E given_names \in GivenNames, surname \in Surnames, check_duplicates \in BOOLEAN,
          kwargs \in Kwargs, generated \in PersonIds :
          PersonCRUD_create(given_names, surname, check_duplicates, kwargs, generated,
                            IF check_duplicates
                            THEN PersonCRUD_find_duplicate(persons_dir, given_names, surname,
                                                           kwargs, FUZZY_MATCHING_AVAILABLE)
                            ELSE {})
    /\ UNCHANGED <<backup_dir, archive_dir>>
    /\ PersonFrame

\* PersonCRUD.read; matches[0] is any of the files glob lists
PersonRead ==
    /\ PersonIdle
    /\ \E person_id \in PersonIds :
          /\ last_op' = [op |-> "read", pc |-> "done", id |-> person_id, raised |-> ""]
          /\ IF Glob(persons_dir, person_id) = {} THEN result' = None
             ELSE \E file_path \in Glob(persons_dir, person_id) :
                     result' = persons_dir[file_path]
    /\ UNCHANGED <<persons_dir, backup_dir, archive_dir>>
    /\ PersonFrame

\* PersonCRUD.update
PersonUpdate ==
    /\ PersonIdle
    /\ \E person_id \in PersonIds, updates \in UpdatePool, make_backup \in BOOLEAN :
          LET call == [op |-> "update", pc |-> "done", id |-> person_id,
                       updates |-> updates, make_backup |-> make_backup,
                       file |-> <<>>, raised |-> ""]
          IN IF Glob(persons_dir, person_id) = {}
             THEN /\ last_op' = call
                  /\ result' = FALSE
                  /\ UNCHANGED <<persons_dir, backup_dir>>
             ELSE \E file_path \in Glob(persons_dir, person_id) :
                     LET data == persons_dir[file_path]
                         updated == ApplyUpdates(data, updates)
                     IN /\ last_op' = [call EXCEPT !.file = file_path]
                        /\ IF ~ChangesNeeded(data, updates)
                           THEN /\ result' = TRUE
                                /\ UNCHANGED <<persons_dir, backup_dir>>
                           ELSE /\ backup_dir' =
                                      IF make_backup
                                      THEN create_backup(persons_dir, file_path, backup_dir,
                                                         clock)
                                      ELSE backup_dir
                                /\ result' = UpdateWrites(updated)
                                /\ persons_dir' =
                                      IF UpdateWrites(updated)
                                      THEN Written(persons_dir, file_path, updated)
                                      ELSE persons_dir
    /\ UNCHANGED archive_dir
    /\ PersonFrame

\* PersonCRUD.delete up to its create_backup call
PersonDeleteBackup ==
    /\ PersonIdle
    /\ \E person_id \in PersonIds, archive \in BOOLEAN :
          LET call == [op |-> "delete", pc |-> "done", id |-> person_id,
                       archive |-> archive, file |-> <<>>, raised |-> ""]
          IN IF Glob(persons_dir, person_id) = {}
             THEN /\ last_op' = call
                  /\ result' = FALSE
                  /\ UNCHANGED backup_dir
             ELSE \E file_path \in Glob(persons_dir, person_id) :
                     /\ last_op' = [call EXCEPT !.pc = "backed_up", !.file = file_path]
                     /\ result' = None
                     /\ backup_dir' = create_backup(persons_dir, file_path, backup_dir, clock)
    /\ UNCHANGED <<persons_dir, archive_dir>>
    /\ PersonFrame

\* PersonCRUD.delete from there: shutil.move to the archive, or unlink
PersonDeleteRemove ==
    /\ last_op.op = "delete"
    /\ last_op.pc = "backed_up"
    /\ last_op' = [last_op EXCEPT !.pc = "done"]
    /\ result' = TRUE
    /\ archive_dir' = IF last_op.archive
                      THEN Written(archive_dir, last_op.file, persons_dir[last_op.file])
                      ELSE archive_dir
    /\ persons_dir' = Gone(persons_dir, last_op.file)
    /\ UNCHANGED backup_dir
    /\ PersonFrame

\* the directory is being filled: nothing but create has been called
Filling == last_op.op \in {"init", "create"}

\* a caller who creates persons, always with the duplicate check, and reads
NextPersons ==
    \/ /\ Filling
       /\ Cardinality(DOMAIN persons_dir) < MaxPersons
       /\ PersonCreate
       /\ last_op'.check_duplicates
    \/ last_op.op # "read" /\ PersonRead

SpecPersons == InitPersons /\ [][NextPersons]_vars

\* a caller who stores persons without the duplicate check, then updates one and
\* repeats the update, a second later or at once, or deletes one, and reads
NextPersonFiles ==
    \/ /\ Filling
       /\ Cardinality(DOMAIN persons_dir) < MaxStored
       /\ PersonCreate
       /\ ~last_op'.check_duplicates
    \/ /\ Filling
       /\ PersonUpdate
    \/ /\ last_op.op = "update"
       /\ Cardinality(DOMAIN backup_dir) <= MaxBackups
       /\ PersonUpdate
       /\ last_op'.id = last_op.id
       /\ last_op'.updates = last_op.updates
       /\ last_op'.make_backup = last_op.make_backup
    \/ last_op.op = "update" /\ Tick
    \/ Filling /\ PersonDeleteBackup
    \/ PersonDeleteRemove
    \/ last_op.op \in {"update", "delete"} /\ PersonRead

SpecPersonFiles == InitPersons /\ [][NextPersonFiles]_vars

(***************************************************************************)
(* C36: PersonCRUD.delete backs the file up before it removes it.  While   *)
(* the call is between create_backup and the removal, the file is still in *)
(* the persons directory and the backup directory holds a copy of it under *)
(* the current timestamp; when the call returns True that backup is there  *)
(* and read(person_id) returns None, that is, no file of the persons       *)
(* directory matches the id any more; for a person_id no file matches, the *)
(* call returns False and the three directories are as before.             *)
(***************************************************************************)
BackedUp(file) ==
    \E b \in DOMAIN backup_dir : b[1] = file

DeleteCalled == last_op'.op = "delete" /\ (last_op.op # "delete" \/ last_op.pc = "done")

C36_DeleteBacksUpThenGone ==
    [][ /\ (DeleteCalled /\ last_op'.pc = "backed_up")
            => /\ last_op'.file \in DOMAIN persons_dir'
               /\ <<last_op'.file, clock>> \in DOMAIN backup_dir'
               /\ backup_dir'[<<last_op'.file, clock>>] = persons_dir'[last_op'.file]
        /\ (last_op.op = "delete" /\ last_op.pc = "backed_up" /\ last_op'.pc = "done")
            => /\ result' = TRUE
               /\ BackedUp(last_op.file)'
               /\ Glob(persons_dir', last_op.id) = {}
        /\ (DeleteCalled /\ Glob(persons_dir, last_op'.id) = {})
            => /\ result' = FALSE
               /\ UNCHANGED <<persons_dir, backup_dir, archive_dir>> ]_vars

(***************************************************************************)
(* C37: PersonCRUD.update is idempotent.  When every requested field       *)
(* already has the requested value, update returns True and leaves the     *)
(* person file and the backup directory as they are; and when the update   *)
(* that returned True is applied once more, to the same file, the persons  *)
(* directory and the backup directory stay exactly as the first            *)
(* application left them.                                                  *)
(***************************************************************************)
AlreadyHas(data, updates) ==
    \A i \in 1..Len(updates) : GetNested(data, updates[i].key) = updates[i].val

UpdateCalled ==
    /\ last_op'.op = "update"
    /\ clock' = clock
    /\ last_op'.file \in DOMAIN persons_dir

C37_UpdateIdempotent ==
    [][ UpdateCalled =>
          /\ AlreadyHas(persons_dir[last_op'.file], last_op'.updates)
                => (result' = TRUE /\ UNCHANGED <<persons_dir, backup_dir>>)
          /\ ( /\ last_op.op = "update"
               /\ result = TRUE
               /\ last_op'.id = last_op.id
               /\ last_op'.updates = last_op.updates
               /\ last_op'.file = last_op.file )
                => UNCHANGED <<persons_dir, backup_dir>> ]_vars

(***************************************************************************)
(* C38: an update that would leave the record with a critical validation   *)
(* issue, and an update of a person_id no file matches, returns False and  *)
(* leaves the persons directory as it is, so that read gives for every     *)
(* person_id what it gave before the call.                                 *)
(***************************************************************************)
PersonsRead(dir, person_id) == {dir[f] : f \in Glob(dir, person_id)}

UpdateRejected ==
    \/ Glob(persons_dir, last_op'.id) = {}
    \/ /\ last_op'.file \in DOMAIN persons_dir
       /\ CriticalIssues(ApplyUpdates(persons_dir[last_op'.file], last_op'.updates)) # {}

C38_RejectedUpdateKeepsFile ==
    [][ (last_op'.op = "update" /\ clock' = clock /\ UpdateRejected)
            => /\ result' = FALSE
               /\ persons_dir' = persons_dir
               /\ \A person_id \in PersonIds :
                     PersonsRead(persons_dir', person_id) = PersonsRead(persons_dir, person_id) ]_vars

\* an update of a stored person was rejected by validation, after its backup was made
C38_Witness ==
    /\ last_op.op = "update"
    /\ result = FALSE
    /\ last_op.file \in DOMAIN persons_dir
    /\ "full_name" \in DOMAIN persons_dir[last_op.file].name
    /\ \E b \in DOMAIN backup_dir : b[1] = last_op.file

(***************************************************************************)
(* C39: PersonCRUD.create with duplicate checking is idempotent.  When a   *)
(* record with the given names, surname, birth year and gender of the call *)
(* is stored already, the call returns a record with these and leaves the  *)
(* persons directory as it is; a call returns a stored record in place of  *)
(* creating one when some match has confidence at least 95; and when there *)
(* are matches and the best of them is below 95, the call adds one file to *)
(* the persons directory, under a person_id no file had.                   *)
(***************************************************************************)
DuplicatesOf(call) ==
    PersonCRUD_search(persons_dir,
                      DuplicateCriteria(call.given_names, call.surname, call.kwargs),
                      TRUE, Rat(80, 1), FUZZY_MATCHING_AVAILABLE)

\* the record has the given names, surname, birth year and gender of the call
SamePerson(data, call) ==
    /\ IsMapping(data) /\ "name" \in DOMAIN data
    /\ NameField(data, "given_names") = call.given_names
    /\ NameField(data, "surname") = call.surname
    /\ BirthYearOf(data) = IF "birth_year" \in DOMAIN call.kwargs
                           THEN YamlInt(call.kwargs.birth_year) ELSE None
    /\ GetNested(data, <<"gender">>) = IF "gender" \in DOMAIN call.kwargs
                                       THEN YamlStr(call.kwargs.gender) ELSE None

CheckedCreate == last_op'.op = "create" /\ last_op'.check_duplicates

C39_CheckedCreateIdempotent ==
    [][ CheckedCreate =>
          /\ (\E file \in DOMAIN persons_dir : SamePerson(persons_dir[file], last_op'))
                => (SamePerson(result', last_op') /\ persons_dir' = persons_dir)
          /\ (\E m \in DuplicatesOf(last_op') : RLe(Rat(95, 1), m.confidence))
                => /\ persons_dir' = persons_dir
                   /\ \E file \in DOMAIN persons_dir : result' = persons_dir[file]
          /\ ( /\ DuplicatesOf(last_op') # {}
               /\ \A m \in DuplicatesOf(last_op') : RLt(m.confidence, Rat(95, 1)) )
                => /\ Glob(persons_dir, last_op'.id) = {}
                   /\ \E file \in DOMAIN persons_dir' \ DOMAIN persons_dir :
                         /\ file[1] = last_op'.id
                         /\ DOMAIN persons_dir' = DOMAIN persons_dir \cup {file} ]_vars

====
